---------------------------- MODULE Spec2Model ----------------------------
(***************************************************************************)
(* A model of the resource-to-emissions accounting of CRUCs                *)
(* (ScienceFarts.py, torqueDork.py, scrapeTorque.py).                       *)
(*                                                                         *)
(* Seven specifications share one set of variables:                         *)
(*   SpecTariff     the per-row price walk followed by the emissions walk  *)
(*                  (calculate_energy_price_row, calculate_emissions_row), *)
(*   SpecAggregate  calculate_cpu_efficiency_row on every row followed by  *)
(*                  calculate_total_resource_use,                          *)
(*   Spec           construction of ScienceFarts (format_user_input, the   *)
(*                  configuration) and ScienceFarts.run for a forecast up  *)
(*                  to per_hour_kWh, or the hand-over of the job IDs,      *)
(*   SpecMemory     convert_memory_to_gb called on its own,                *)
(*   SpecTrace      JobStats.get_tracejob_figures over a batch of job IDs, *)
(*                  then calculate_resource_use up to per_hour_kWh,        *)
(*   SpecScrape     scrapeTorque runs interleaved with the scheduler       *)
(*                  appending lines to the dated accounting files,         *)
(*   SpecDork       torqueDork.compute_stats over the rows of one query.   *)
(*                                                                         *)
(* Time is counted in ticks since Friday 2022-07-29 00:00:00; an hour is   *)
(* TicksPerHour ticks.  Real numbers are exact rationals <<n, d>>, so the  *)
(* model says nothing about floating-point rounding.                       *)
(***************************************************************************)
EXTENDS Integers, Sequences, FiniteSets, TLC

VARIABLES
    \* ---- tariff walk (ScienceFarts.calculate_*_row) ----
    row,               \* the job record handed to the walk
    energy_price,      \* self.energy_price: scalar or 2 x 24 table
    carbon_intensity,  \* self.carbon_intensity: scalar or 12 x 24 table
    current_time,      \* local current_time
    weekday,           \* local weekday of the price walk (table row)
    month,             \* local month of the emissions walk (table row)
    hour,              \* local hour (table column)
    time_diff,         \* local time_diff, in ticks
    price,             \* local price / emissions: the rate read this iteration
    total_price,       \* local total_price,     in rate * kWh/h * ticks
    total_emissions,   \* local total_emissions, in rate * kWh/h * ticks
    cost_DKK,          \* stats_df["cost_DKK"] of the row
    emissions_g,       \* stats_df["emissions_g"] of the row
    iterations,        \* history: loop iterations of the walk in progress
    sum_diff,          \* history: time_diff accumulated by the walk in progress
    pc,                \* position in calculate_resource_use for the row
    \* ---- aggregation (calculate_total_resource_use) ----
    stats_df,          \* the per-job table: a sequence of rows
    stats_out,         \* self.stats_out
    apc,               \* position of the aggregation
    \* ---- construction and input hand-over ----
    user_input,        \* the argument given to ScienceFarts(...)
    input_type,        \* "forecast", "jobid", "jobarray" or "logfile"
    self_user_input,   \* self.user_input after format_user_input
    forecast_row,      \* ForecastStats.stats_df (one row) with cpu_efficiency
    id_array,          \* JobStats.id_array
    outcome,           \* "ok", or the exception / exit that ended the process
    exit_status,       \* exit status of the process, -1 while it runs
    config,            \* the loaded config.yaml (carbon and price sections)
    reference_data,    \* reference_data["energy"] of emission_references.yaml
    fpc,               \* position in __init__ / run
    \* ---- convert_memory_to_gb called on its own ----
    mem_arg,           \* the argument memory
    mem_result,        \* the value returned, or the exit / exception
    mpc,               \* "call" before the call, "done" after it
    \* ---- JobStats.get_tracejob_figures (with input_type, id_array, outcome) ----
    tracelog,          \* what tracejob prints for each job ID: its lines
    job_index,         \* position of the for loop in id_array
    start_time_list,   \* the six result columns
    end_time_list,
    cores_list,
    memory_list,
    cpu_time_list,
    walltime_list,
    skipped,           \* job IDs reported on stderr as not in the logs
    trace_df,          \* the stats_df returned, then with the columns added
    tpc,               \* position in get_tracejob_figures / calculate_resource_use
    \* ---- scrapeTorque.py: the accounting files and the store ----
    server_logs,       \* self.server_logs (the -s flag)
    torque_files,      \* the dated accounting files: day |-> its lines
    torque_logs,       \* the committed rows of table torque_logs, oldest first
    today,             \* the current day, in days since 2020-01-01
    dirty,             \* history: a line was appended since the last run
    runs,              \* history: scrape runs made so far
    run_result,        \* history: how the last run ended
    \* ---- torqueDork.py: the per-user statistics ----
    query_data,        \* self.query_data: the rows the query returned
    data_stats,        \* the efficiencies computed per user
    carbon_input,      \* what compute_carbon_load hands to ScienceFarts
    dpc                \* position in torqueDork.main

tariffVars == <<row, energy_price, carbon_intensity, current_time, weekday, month,
                hour, time_diff, price, total_price, total_emissions, cost_DKK,
                emissions_g, iterations, sum_diff, pc>>
aggVars    == <<stats_df, stats_out, apc>>
inputVars  == <<user_input, input_type, self_user_input, forecast_row, id_array,
                outcome, exit_status, config, reference_data, fpc>>
memVars    == <<mem_arg, mem_result, mpc>>
listVars   == <<start_time_list, end_time_list, cores_list, memory_list,
                cpu_time_list, walltime_list>>
traceVars  == <<tracelog, job_index, listVars, skipped, trace_df, tpc>>
scrapeVars == <<server_logs, torque_files, torque_logs, today, dirty, runs, run_result>>
dorkVars   == <<query_data, data_stats, carbon_input, dpc>>
vars       == <<tariffVars, aggVars, inputVars, memVars, traceVars, scrapeVars,
                dorkVars>>

(***************************************************************************)
(* Bounds of the model.                                                    *)
(***************************************************************************)
TicksPerHour == 2      \* resolution of the clock: a tick is half an hour
WindowHours  == 80     \* start times range over Fri 00:00 .. Mon 08:00
MaxDurHours  == 3      \* longest job interval walked, in hours
MaxPerHour   == 1      \* largest per_hour_kWh (in model units)
MaxJobs      == 2      \* largest number of rows aggregated
MaxIds       == 5      \* longest list of job IDs given on the command line
MaxDigits    == 2      \* longest number in a memory string
MaxLines     == 3      \* longest tracejob output of the job traced freely, in lines
MaxBatch     == 2      \* longest id_array traced

(***************************************************************************)
(* Exact rationals.                                                        *)
(***************************************************************************)
Min(a, b) == IF a <= b THEN a ELSE b
Max(a, b) == IF a >= b THEN a ELSE b

RECURSIVE Gcd(_, _)
Gcd(a, b) == IF b = 0 THEN a ELSE Gcd(b, a % b)

Rat(n, d)  == LET g == Gcd(IF n < 0 THEN -n ELSE n, d)
              IN  IF g = 0 THEN <<0, 1>> ELSE <<n \div g, d \div g>>
RInt(n)    == <<n, 1>>
RAdd(a, b) == LET g == Gcd(a[2], b[2])
              IN  Rat(a[1] * (b[2] \div g) + b[1] * (a[2] \div g), (a[2] \div g) * b[2])
RMul(a, b) == LET x == Rat(a[1], b[2])
                  y == Rat(b[1], a[2])
              IN  <<x[1] * y[1], x[2] * y[2]>>
RDiv(a, b) == RMul(a, <<b[2], b[1]>>)          \* b > 0
RLe(a, b)  == a[1] * b[2] <= b[1] * a[2]
RCeil(a)   == -((-a[1]) \div a[2])


(***************************************************************************)
(* The calendar: datetime.weekday(), .month and .hour of a tick.  Tick 0   *)
(* is Friday 2022-07-29 00:00:00, so day 0 is a Friday (weekday() = 4,     *)
(* Monday being 0), days 0..2 lie in July and day 3 is Monday 1 August.    *)
(***************************************************************************)
DayIndex(t)  == t \div (24 * TicksPerHour)
Weekday(t)   == (4 + DayIndex(t)) % 7
MonthOf(t)   == IF DayIndex(t) < 3 THEN 7 ELSE 8
HourOfDay(t) == (t \div TicksPerHour) % 24
OneHour      == TicksPerHour              \* datetime.timedelta(hours=1)

(***************************************************************************)
(* Tariff tables.  A scalar rate, or a table read with .iloc[row, column]. *)
(* The tables used have pairwise distinct entries, so that a read of any   *)
(* other cell than the intended one changes the total.                     *)
(***************************************************************************)
Scalar(r)  == [kind |-> "scalar", rate |-> r, tab |-> <<>>]
Table(tab) == [kind |-> "table", rate |-> 0, tab |-> tab]

PriceTable  == [w \in 0..1  |-> [h \in 0..23 |-> 1 + 24 * w + h]]
CarbonTable == [m \in 0..11 |-> [h \in 0..23 |-> 1 + 24 * m + h]]

EnergyPrices      == {Scalar(3), Table(PriceTable)}
CarbonIntensities == {Scalar(5), Table(CarbonTable)}

StartTimes == 0 .. (WindowHours * TicksPerHour - 1)
Durations  == 0 .. (MaxDurHours * TicksPerHour)

Rows == { [start_time |-> s, end_time |-> s + d, per_hour_kWh |-> k] :
            s \in StartTimes, d \in Durations, k \in 1..MaxPerHour }

NoRow == [start_time |-> 0, end_time |-> 0, per_hour_kWh |-> 0]

(***************************************************************************)
(* The walk, statement by statement.                                       *)
(***************************************************************************)
\* while current_time <= row["end_time"]
LoopGuard(cur, end) == cur <= end

\* weekday = (current_time.weekday() > 5)*1
WeekdayClass(t) == IF Weekday(t) > 5 THEN 1 ELSE 0

\* month = current_time.month - 1
MonthIndex(t) == MonthOf(t) - 1

\* TimeDiff without the clipping to end_time (a faulty variant, for C3).
TimeDiffUnclipped(cur, end) == OneHour

\* time_diff = min(current_time + timedelta(hours=1), row["end_time"]) - current_time
TimeDiff(cur, end) == Min(cur + OneHour, end) - cur

\* price = price_ref_df.iloc[weekday,hour]  /  price = price_ref
LookupRate(ref, r, h) == IF ref.kind = "table" THEN ref.tab[r][h] ELSE ref.rate

\* total += rate * row["per_hour_kWh"] * time_diff
Accrue(total, rate, perHour, diff) == total + rate * perHour * diff

\* NextTime advancing by one tick instead of one hour (a faulty variant, for C6).
NextTimeSlow(t) == t + 1

\* current_time += datetime.timedelta(hours=1)
NextTime(t) == t + OneHour

InitTariffVars ==
    /\ row \in Rows
    /\ energy_price \in EnergyPrices
    /\ carbon_intensity \in CarbonIntensities
    /\ current_time = row.start_time
    /\ weekday = 0 /\ month = 0 /\ hour = 0 /\ time_diff = 0 /\ price = 0
    /\ total_price = 0 /\ total_emissions = 0
    /\ cost_DKK = 0 /\ emissions_g = 0
    /\ iterations = 0 /\ sum_diff = 0
    /\ pc = "price_loop"

IdleTariffVars ==
    /\ row = NoRow
    /\ energy_price = Scalar(0)
    /\ carbon_intensity = Scalar(0)
    /\ current_time = 0
    /\ weekday = 0 /\ month = 0 /\ hour = 0 /\ time_diff = 0 /\ price = 0
    /\ total_price = 0 /\ total_emissions = 0
    /\ cost_DKK = 0 /\ emissions_g = 0
    /\ iterations = 0 /\ sum_diff = 0
    /\ pc = "idle"

\* One iteration of the loop of calculate_energy_price_row.
PriceIter ==
    /\ pc = "price_loop"
    /\ LoopGuard(current_time, row.end_time)
    /\ weekday' = WeekdayClass(current_time)
    /\ hour' = HourOfDay(current_time)
    /\ time_diff' = TimeDiff(current_time, row.end_time)
    /\ price' = LookupRate(energy_price, weekday', hour')
    /\ total_price' = Accrue(total_price, price', row.per_hour_kWh, time_diff')
    /\ current_time' = NextTime(current_time)
    /\ iterations' = iterations + 1
    /\ sum_diff' = sum_diff + time_diff'
    /\ UNCHANGED <<row, energy_price, carbon_intensity, month, total_emissions,
                   cost_DKK, emissions_g, pc>>
    /\ UNCHANGED <<aggVars, inputVars, memVars, traceVars, scrapeVars, dorkVars>>

\* return total_price; calculate_resource_use stores it and calls
\* calculate_emissions_row on the same row.
PriceReturn ==
    /\ pc = "price_loop"
    /\ ~LoopGuard(current_time, row.end_time)
    /\ cost_DKK' = total_price
    /\ pc' = "emissions_loop"
    /\ current_time' = row.start_time
    /\ total_emissions' = 0
    /\ iterations' = 0
    /\ sum_diff' = 0
    /\ UNCHANGED <<row, energy_price, carbon_intensity, weekday, month, hour,
                   time_diff, price, total_price, emissions_g>>
    /\ UNCHANGED <<aggVars, inputVars, memVars, traceVars, scrapeVars, dorkVars>>

\* One iteration of the loop of calculate_emissions_row.
EmissionsIter ==
    /\ pc = "emissions_loop"
    /\ LoopGuard(current_time, row.end_time)
    /\ month' = MonthIndex(current_time)
    /\ hour' = HourOfDay(current_time)
    /\ time_diff' = TimeDiff(current_time, row.end_time)
    /\ price' = LookupRate(carbon_intensity, month', hour')
    /\ total_emissions' = Accrue(total_emissions, price', row.per_hour_kWh, time_diff')
    /\ current_time' = NextTime(current_time)
    /\ iterations' = iterations + 1
    /\ sum_diff' = sum_diff + time_diff'
    /\ UNCHANGED <<row, energy_price, carbon_intensity, weekday, total_price,
                   cost_DKK, emissions_g, pc>>
    /\ UNCHANGED <<aggVars, inputVars, memVars, traceVars, scrapeVars, dorkVars>>

\* return total_emissions
EmissionsReturn ==
    /\ pc = "emissions_loop"
    /\ ~LoopGuard(current_time, row.end_time)
    /\ emissions_g' = total_emissions
    /\ pc' = "done"
    /\ UNCHANGED <<row, energy_price, carbon_intensity, current_time, weekday, month,
                   hour, time_diff, price, total_price, total_emissions, cost_DKK,
                   iterations, sum_diff>>
    /\ UNCHANGED <<aggVars, inputVars, memVars, traceVars, scrapeVars, dorkVars>>

NextTariff == PriceIter \/ PriceReturn \/ EmissionsIter \/ EmissionsReturn


(***************************************************************************)
(* Variables of the other components while one component runs alone.       *)
(***************************************************************************)
IdleAggVars ==
    /\ stats_df = <<>>
    /\ stats_out = [state |-> "none"]
    /\ apc = "idle"

IdleInputVars ==
    /\ user_input = <<>>
    /\ input_type = "none"
    /\ self_user_input = <<>>
    /\ forecast_row = [state |-> "none"]
    /\ id_array = <<>>
    /\ outcome = "ok"
    /\ exit_status = -1
    /\ config = [state |-> "none"]
    /\ reference_data = [state |-> "none"]
    /\ fpc = "idle"

IdleMemVars ==
    /\ mem_arg = [t |-> "None", s |-> <<>>, q |-> <<0, 1>>]
    /\ mem_result = [res |-> "none"]
    /\ mpc = "idle"

IdleScrapeVars ==
    /\ server_logs = FALSE
    /\ torque_files = <<>>
    /\ torque_logs = <<>>
    /\ today = 0
    /\ dirty = FALSE
    /\ runs = 0
    /\ run_result = [outcome |-> "none"]

IdleDorkVars ==
    /\ query_data = <<>>
    /\ data_stats = [state |-> "none"]
    /\ carbon_input = [state |-> "none"]
    /\ dpc = "idle"

IdleTraceVars ==
    /\ tracelog = <<>>
    /\ job_index = 0
    /\ start_time_list = <<>>
    /\ end_time_list = <<>>
    /\ cores_list = <<>>
    /\ memory_list = <<>>
    /\ cpu_time_list = <<>>
    /\ walltime_list = <<>>
    /\ skipped = <<>>
    /\ trace_df = <<>>
    /\ tpc = "idle"

InitTariff == InitTariffVars /\ IdleAggVars /\ IdleInputVars /\ IdleMemVars /\ IdleTraceVars /\ IdleScrapeVars /\ IdleDorkVars
SpecTariff == InitTariff /\ [][NextTariff]_vars

(***************************************************************************)
(* What the tariff walk is specified to compute.                           *)
(***************************************************************************)
IsWeekend(t) == Weekday(t) \in {5, 6}                 \* Saturday or Sunday
WeekendRow(t) == IF IsWeekend(t) THEN 1 ELSE 0

\* The rate of the bucket a tick falls in: (is_weekend, hour) for the price
\* table, (month - 1, hour) for the carbon table.
BucketPrice(t)  == LookupRate(energy_price, WeekendRow(t), HourOfDay(t))
BucketCarbon(t) == LookupRate(carbon_intensity, MonthOf(t) - 1, HourOfDay(t))

\* Every tick of [s, e) charged at the rate of its own bucket.
RECURSIVE ExactPrice(_, _)
ExactPrice(s, e) == IF s >= e THEN 0
                    ELSE BucketPrice(s) * row.per_hour_kWh + ExactPrice(s + 1, e)

RECURSIVE ExactCarbon(_, _)
ExactCarbon(s, e) == IF s >= e THEN 0
                     ELSE BucketCarbon(s) * row.per_hour_kWh + ExactCarbon(s + 1, e)

Duration     == row.end_time - row.start_time
CeilHours    == (Duration + TicksPerHour - 1) \div TicksPerHour
InLoop       == pc \in {"price_loop", "emissions_loop"}
PriceDone    == pc \in {"emissions_loop", "done"}
PrevTime     == current_time - OneHour       \* the time the last iteration read
InOneBucket  == row.end_time <= (row.start_time \div TicksPerHour + 1) * TicksPerHour
NoSaturday   == \A t \in row.start_time .. row.end_time : Weekday(t) # 5

\* C1: the totals returned by the price walk and the emissions walk charge
\* every part of [start_time, end_time] at the rate of the calendar bucket it
\* falls in, whether or not start_time is on an hour boundary.  Stated for
\* the intervals that touch no Saturday, where the table row read by the
\* price walk is the specified one (C4 is about the others).
C1_ExactTotals ==
    (pc = "done" /\ NoSaturday) =>
        /\ cost_DKK = ExactPrice(row.start_time, row.end_time)
        /\ emissions_g = ExactCarbon(row.start_time, row.end_time)

\* C2: for an interval fully inside one hourly bucket both totals equal
\* rate(bucket) * per_hour_kWh * duration.
C2_SingleBucket ==
    (pc = "done" /\ InOneBucket) =>
        /\ cost_DKK = BucketPrice(row.start_time) * row.per_hour_kWh * Duration
        /\ emissions_g = BucketCarbon(row.start_time) * row.per_hour_kWh * Duration

\* C3: the segments walked tile [start_time, end_time]: after every iteration
\* the accumulated time_diff is the part of the interval passed so far, and
\* when the loop exits it is exactly end_time - start_time.
C3_SegmentsTile ==
    /\ InLoop => sum_diff = Min(current_time, row.end_time) - row.start_time
    /\ pc = "done" => sum_diff = Duration

C3_Witness ==
    /\ pc = "done"
    /\ iterations = 3
    /\ row.start_time % TicksPerHour # 0
    /\ Duration % TicksPerHour # 0
    /\ sum_diff = Duration

\* C4: every iteration of the price walk reads row 1 for a Saturday or a
\* Sunday and row 0 for Monday to Friday, in column hour_of_day(current).
C4_WeekendRow ==
    (pc = "price_loop" /\ iterations > 0 /\ energy_price.kind = "table") =>
        /\ weekday = WeekendRow(PrevTime)
        /\ hour = HourOfDay(PrevTime)
        /\ price = BucketPrice(PrevTime)

\* C5: a 2.5 hour job that starts on a weekday and ends on a weekend day is
\* priced as three segments (1 h, 1 h, 0.5 h), each at the rate of the bucket
\* it starts in: the weekday row before the boundary, the weekend row after.
C5_BoundaryJob ==
    (/\ PriceDone
     /\ 2 * Duration = 5 * TicksPerHour
     /\ ~IsWeekend(row.start_time)
     /\ IsWeekend(row.end_time)) =>
        cost_DKK = row.per_hour_kWh *
                     ( BucketPrice(row.start_time) * OneHour
                     + BucketPrice(row.start_time + OneHour) * OneHour
                     + BucketPrice(row.start_time + 2 * OneHour) * (OneHour \div 2) )

\* C6: the walk terminates: current advances by one hour per iteration and
\* the loop is left after at most ceil(duration_hours) + 1 iterations.
C6_WalkTerminates ==
    InLoop =>
        /\ current_time = row.start_time + iterations * OneHour
        /\ iterations <= CeilHours + 1
        /\ (iterations = CeilHours + 1 => ~LoopGuard(current_time, row.end_time))

C6_Witness ==
    /\ pc = "done"
    /\ Duration > 0
    /\ iterations = CeilHours + 1


(***************************************************************************)
(* Aggregation: the cpu_efficiency column of calculate_resource_use and    *)
(* calculate_total_resource_use.  A row holds cpu_time and walltime in     *)
(* seconds and the core count JobStats infers from them.                   *)
(***************************************************************************)
CpuTimes  == {10, 1800, 3600, 5400, 7200}
Walltimes == {1800, 3600}

\* cores = math.ceil(cpu_time / walltime.total_seconds())
InferCores(cpu_time, walltime) == RCeil(Rat(cpu_time, walltime))

AggRows == { [cpu_time |-> t, cores |-> InferCores(t, w), walltime |-> w,
              cpu_efficiency |-> <<0, 1>>] : t \in CpuTimes, w \in Walltimes }

RECURSIVE SeqsUpTo(_, _)
SeqsUpTo(S, n) == IF n = 0 THEN {<<>>}
                  ELSE LET shorter == SeqsUpTo(S, n - 1)
                       IN  shorter \cup { Append(q, x) : q \in shorter, x \in S }

\* cpu_efficiency = row["cpu_time"] / row["cores"] / row["walltime"].total_seconds()
CpuEfficiencyRow(r) == RDiv(RDiv(RInt(r.cpu_time), RInt(r.cores)), RInt(r.walltime))

RECURSIVE SumCpuTime(_)
SumCpuTime(df) == IF df = <<>> THEN 0 ELSE Head(df).cpu_time + SumCpuTime(Tail(df))

\* round(x / 3600, 2) for x seconds, in hundredths: the nearest integers to
\* x / 36.  At an exact tie the float decides, so both neighbours are possible.
Round2Hours(x) == LET q == x \div 36
                      r == x % 36
                  IN  IF r < 18 THEN {q} ELSE IF r > 18 THEN {q + 1} ELSE {q, q + 1}

Num(v)  == [kind |-> "num", val |-> v]
Inf     == [kind |-> "inf", val |-> <<0, 1>>]
NaN     == [kind |-> "nan", val |-> <<0, 1>>]

\* float addition and multiplication with inf and nan
FAdd(a, b) == IF a.kind = "nan" \/ b.kind = "nan" THEN NaN
              ELSE IF a.kind = "inf" \/ b.kind = "inf" THEN Inf
              ELSE Num(RAdd(a.val, b.val))
FMul(a, b) == IF a.kind = "nan" \/ b.kind = "nan" THEN NaN
              ELSE IF a.kind = "inf" \/ b.kind = "inf"
                   THEN IF (a.kind = "num" /\ a.val[1] = 0) \/ (b.kind = "num" /\ b.val[1] = 0)
                        THEN NaN ELSE Inf
              ELSE Num(RMul(a.val, b.val))

\* job_rel_fraction = self.stats_df["cpu_time"] / total_cpu_time, where
\* total_cpu_time is in hours (hundredths h / 100); a pandas division by 0.0
\* gives inf, or nan for 0 / 0.0.
JobRelFraction(cpu_time, h) ==
    IF h = 0 THEN (IF cpu_time = 0 THEN NaN ELSE Inf)
    ELSE Num(RDiv(RInt(cpu_time), Rat(h, 100)))

\* total_efficiency = sum(job_rel_fraction * self.stats_df["cpu_efficiency"])
RECURSIVE TotalEfficiency(_, _)
TotalEfficiency(df, h) ==
    IF df = <<>> THEN Num(<<0, 1>>)
    ELSE FAdd(FMul(JobRelFraction(Head(df).cpu_time, h), Num(Head(df).cpu_efficiency)),
              TotalEfficiency(Tail(df), h))

InitAggVars ==
    /\ stats_df \in SeqsUpTo(AggRows, MaxJobs) \ {<<>>}
    /\ stats_out = [state |-> "none"]
    /\ apc = "rows"

\* self.stats_df["cpu_efficiency"] = self.stats_df.apply(calculate_cpu_efficiency_row)
CalculateResourceUse ==
    /\ apc = "rows"
    /\ stats_df' = [i \in 1..Len(stats_df) |->
                      [stats_df[i] EXCEPT !.cpu_efficiency = CpuEfficiencyRow(stats_df[i])]]
    /\ apc' = "total"
    /\ UNCHANGED stats_out
    /\ UNCHANGED <<tariffVars, inputVars, memVars, traceVars, scrapeVars, dorkVars>>

\* calculate_total_resource_use: total_cpu_time and total_efficiency
CalculateTotalResourceUse ==
    /\ apc = "total"
    /\ \E h \in Round2Hours(SumCpuTime(stats_df)) :
          stats_out' = [state |-> "set",
                        total_cpu_time |-> Rat(h, 100),
                        total_efficiency |-> TotalEfficiency(stats_df, h)]
    /\ apc' = "done"
    /\ UNCHANGED stats_df
    /\ UNCHANGED <<tariffVars, inputVars, memVars, traceVars, scrapeVars, dorkVars>>

NextAggregate == CalculateResourceUse \/ CalculateTotalResourceUse
InitAggregate == IdleTariffVars /\ InitAggVars /\ IdleInputVars /\ IdleMemVars /\ IdleTraceVars /\ IdleScrapeVars /\ IdleDorkVars
SpecAggregate == InitAggregate /\ [][NextAggregate]_vars

(***************************************************************************)
(* What the aggregator is specified to compute.                            *)
(***************************************************************************)
\* sum_i (t_i / sum_j t_j) * e_i
RECURSIVE WeightedMean(_, _)
WeightedMean(df, total) ==
    IF df = <<>> THEN <<0, 1>>
    ELSE RAdd(RMul(Rat(Head(df).cpu_time, total), Head(df).cpu_efficiency),
              WeightedMean(Tail(df), total))

RECURSIVE MaxEfficiency(_)
MaxEfficiency(df) ==
    IF df = <<>> THEN <<0, 1>>
    ELSE LET m == MaxEfficiency(Tail(df))
         IN  IF RLe(m, Head(df).cpu_efficiency) THEN Head(df).cpu_efficiency ELSE m

\* C7: total_efficiency is the cpu-time-weighted mean of the per-job
\* efficiencies: it equals sum_i (t_i / sum t) * e_i, lies in [0, max e_i],
\* and is e_1 for a single job.
C7_WeightedEfficiency ==
    apc = "done" =>
        /\ stats_out.total_efficiency.kind = "num"
        /\ stats_out.total_efficiency.val = WeightedMean(stats_df, SumCpuTime(stats_df))
        /\ RLe(<<0, 1>>, stats_out.total_efficiency.val)
        /\ RLe(stats_out.total_efficiency.val, MaxEfficiency(stats_df))
        /\ (Len(stats_df) = 1 => stats_out.total_efficiency.val = stats_df[1].cpu_efficiency)


(***************************************************************************)
(* Python values.  A string is a sequence of one-character strings, so     *)
(* that slicing, split and int() are computed as Python computes them; an  *)
(* int or a float carries its value as a rational.  The int 0 and the      *)
(* string "0" are different values.                                        *)
(***************************************************************************)
PyStr(c)   == [t |-> "str",   s |-> c,    q |-> <<0, 1>>]
PyInt(n)   == [t |-> "int",   s |-> <<>>,  q |-> <<n, 1>>]
PyFloat(q)   == [t |-> "float", s |-> <<>>,  q |-> q]
PyNone     == [t |-> "None",  s |-> <<>>,  q |-> <<0, 1>>]

DigitVal == [c \in {"0", "1", "2", "3", "4", "5", "6", "7", "8", "9"} |->
               CASE c = "0" -> 0 [] c = "1" -> 1 [] c = "2" -> 2 [] c = "3" -> 3
                 [] c = "4" -> 4 [] c = "5" -> 5 [] c = "6" -> 6 [] c = "7" -> 7
                 [] c = "8" -> 8 [] c = "9" -> 9]

\* int(s) succeeds (for the inputs modelled: digits only, no sign or blanks)
IsIntLiteral(s) == Len(s) > 0 /\ \A i \in 1..Len(s) : s[i] \in DOMAIN DigitVal

RECURSIVE ParseInt(_)
ParseInt(s) == IF s = <<>> THEN 0
               ELSE 10 * ParseInt(SubSeq(s, 1, Len(s) - 1)) + DigitVal[s[Len(s)]]

\* s.split(':')
RECURSIVE SplitColon(_)
SplitColon(s) ==
    IF \A i \in 1..Len(s) : s[i] # ":" THEN <<s>>
    ELSE LET i == CHOOSE k \in 1..Len(s) : s[k] = ":" /\ \A j \in 1..(k - 1) : s[j] # ":"
         IN  <<SubSeq(s, 1, i - 1)>> \o SplitColon(SubSeq(s, i + 1, Len(s)))

\* s[-2:] and s[0:-2]
LastTwo(s)      == SubSeq(s, Max(1, Len(s) - 1), Len(s))
AllButLastTwo(s) == SubSeq(s, 1, Len(s) - 2)

\* s * n for a str s
Repeat(s, n) == IF n <= 0 THEN <<>>
                ELSE [i \in 1..(n * Len(s)) |-> s[((i - 1) % Len(s)) + 1]]

Value(v)   == [res |-> "value", v |-> v]
Raised(e)  == [res |-> e, v |-> PyInt(0)]
\* sys.exit(arg): SystemExit carrying the argument
SysExit(arg) == [res |-> "SystemExit", v |-> arg]

\* The status the interpreter ends with: sys.exit() and sys.exit(None) give 0,
\* sys.exit(n) gives n, an exception nobody catches gives 1.
ExitStatus(r) ==
    IF r.res = "SystemExit" THEN (IF r.v.t = "None" THEN 0 ELSE r.v.q[1]) ELSE 1

\* A faulty variant, for C13: an unknown unit is reported and the amount
\* taken as 0.
ConvertMemoryToGbZero(memory) ==
    IF memory.t # "str" THEN Value(PyFloat(RDiv(memory.q, RInt(1000))))
    ELSE IF IsIntLiteral(memory.s)
         THEN Value(PyFloat(Rat(ParseInt(memory.s), 1000)))
    ELSE LET unit   == LastTwo(memory.s)
             number == AllButLastTwo(memory.s)
         IN  IF unit \notin {<<"k", "b">>, <<"m", "b">>, <<"g", "b">>, <<"t", "b">>}
             THEN Value(PyInt(0))
             ELSE IF ~IsIntLiteral(number) THEN Raised("ValueError")
             ELSE CASE unit = <<"k", "b">> -> Value(PyFloat(Rat(ParseInt(number), 1000000)))
                    [] unit = <<"m", "b">> -> Value(PyFloat(Rat(ParseInt(number), 1000)))
                    [] unit = <<"g", "b">> -> Value(PyInt(ParseInt(number)))
                    [] unit = <<"t", "b">> -> Value(PyInt(ParseInt(number) * 1000))

\* convert_memory_to_gb(memory)
ConvertMemoryToGb(memory) ==
    IF memory.t # "str" THEN Value(PyFloat(RDiv(memory.q, RInt(1000))))
    ELSE IF IsIntLiteral(memory.s)
         THEN Value(PyFloat(Rat(ParseInt(memory.s), 1000)))
    ELSE LET unit   == LastTwo(memory.s)
             number == AllButLastTwo(memory.s)
         IN  IF unit \notin {<<"k", "b">>, <<"m", "b">>, <<"g", "b">>, <<"t", "b">>}
             THEN SysExit(PyNone)
             ELSE IF ~IsIntLiteral(number) THEN Raised("ValueError")
             ELSE CASE unit = <<"k", "b">> -> Value(PyFloat(Rat(ParseInt(number), 1000000)))
                    [] unit = <<"m", "b">> -> Value(PyFloat(Rat(ParseInt(number), 1000)))
                    [] unit = <<"g", "b">> -> Value(PyInt(ParseInt(number)))
                    [] unit = <<"t", "b">> -> Value(PyInt(ParseInt(number) * 1000))

\* The walltime components of get_cpu_time / get_start_end_time / parse_walltime:
\* hours, minutes and seconds of "H:M:S", as total seconds.
WalltimeSeconds(walltime) ==
    LET parts == SplitColon(walltime.s)
    IN  IF Len(parts) < 3 THEN Raised("IndexError")
        ELSE IF \E i \in 1..3 : ~IsIntLiteral(parts[i]) THEN Raised("ValueError")
        ELSE Value(PyInt(ParseInt(parts[1]) * 3600 + ParseInt(parts[2]) * 60 + ParseInt(parts[3])))

\* walltime * cores: an int times an int, or a str repeated
PyMul(n, x) == IF x.t = "str" THEN PyStr(Repeat(x.s, n)) ELSE PyInt(n * x.q[1])

\* format_user_input(user_input): user_input[0] .. user_input[3] are read
\* whatever the input type, and a list of four values is returned.
FormatUserInput(input) ==
    IF Len(input) < 4 THEN Raised("IndexError")
    ELSE Value(<< IF input[1] \in {PyStr(<<"0", ":", "0", "0", ":", "0", "0">>),
                                    PyStr(<<"0", "0", ":", "0", "0", ":", "0", "0">>)}
                  THEN PyStr(<<"0", ":", "0", "0", ":", "0", "1">>) ELSE input[1],
                  IF input[2] = PyStr(<<"0">>) THEN PyStr(<<"1">>) ELSE input[2],
                  IF input[3] = PyStr(<<"0">>) THEN PyStr(<<"1">>) ELSE input[3],
                  input[4] >>)


(***************************************************************************)
(* Inputs of ScienceFarts(user_input, input_type).                         *)
(***************************************************************************)
WalltimeArgs == { PyStr(<<"0", ":", "0", "0", ":", "0", "0">>),
                  PyStr(<<"0", "0", ":", "0", "0", ":", "0", "0">>),
                  PyStr(<<"0", ":", "0", "0", ":", "0", "2">>),
                  PyStr(<<"0", ":", "0", "1", ":", "0", "0">>),
                  PyStr(<<"0", "1", ":", "0", "0", ":", "0", "0">>) }
MemoryArgs   == { PyStr(<<"0">>), PyStr(<<"5", "0", "0">>), PyStr(<<"1", "6", "g", "b">>),
                  PyStr(<<"4", "0", "g", "b">>), PyStr(<<"2", "G", "B">>),
                  PyStr(<<"3", "x", "b">>), PyInt(4) }
\* --cpus has type=int; torqueDork passes a summed integer column; a caller
\* of the class may pass a string.
CoreArgs     == { PyInt(0), PyInt(2), PyInt(4), PyStr(<<"0">>) }
GpuArgs      == { PyInt(0), PyInt(1) }

ForecastInputs == { <<w, m, c, g>> : w \in WalltimeArgs, m \in MemoryArgs,
                                     c \in CoreArgs, g \in GpuArgs }

JobIds        == { PyStr(<<"7">>), PyStr(<<"0">>) }
JobIdLists    == SeqsUpTo(JobIds, MaxIds) \ {<<>>}
LogfileLists  == SeqsUpTo({PyStr(<<"l", "o", "g">>)}, MaxIds) \ {<<>>}

\* config['cluster']['carbon'] and config['cluster']['price'] as loaded from
\* config.yaml: a key left empty is None.  ref_rows is the number of rows the
\* carbon reference file holds for the configured location.
Configs ==
    { [custom_intensity_file |-> f, carbon_intensity |-> ci, ref_rows |-> n,
       custom_price_table |-> pt, energy_price |-> ep, price_currency |-> cur] :
        f \in {PyNone}, ci \in {PyNone, PyInt(150)}, n \in {0, 1},
        pt \in {PyNone, PyStr(<<"p">>)}, ep \in {PyNone, PyInt(2)},
        cur \in {PyNone, PyStr(<<"D", "K", "K">>)} }

\* reference_data["energy"][...]["kW"]: power of a core, of a 16 GB memory
\* stick and of a GPU
ReferenceDatas ==
    { [cpu_core |-> <<1, 100>>, mem_16GB |-> <<1, 200>>, gpu_full |-> <<3, 10>>],
      [cpu_core |-> <<1, 80>>,  mem_16GB |-> <<3, 800>>, gpu_full |-> <<1, 4>>] }

\* Python truth value of a configuration entry
Truthy(x) == x # PyNone /\ x # PyInt(0) /\ x # PyStr(<<>>)

\* determine_config_stats(location, stat = "intensity")
DetermineIntensity(c) ==
    IF Truthy(c.custom_intensity_file) THEN Value(PyStr(<<"t", "a", "b", "l", "e">>))
    ELSE IF Truthy(c.carbon_intensity) THEN Value(c.carbon_intensity)
    ELSE IF c.ref_rows # 1 THEN Raised("ValueError")
    ELSE Value(PyInt(150))

\* determine_config_stats(location, stat = "price")
DeterminePrice(c) ==
    LET energy_price_ == IF Truthy(c.custom_price_table)
                         THEN PyStr(<<"t", "a", "b", "l", "e">>) ELSE c.energy_price
    IN  IF energy_price_ = PyNone \/ c.price_currency = PyNone
        THEN SysExit(PyNone)
        ELSE Value(energy_price_)

InitInputVars ==
    /\ \/ input_type = "forecast" /\ user_input \in ForecastInputs
       \/ input_type \in {"jobid", "jobarray"} /\ user_input \in JobIdLists
       \/ input_type = "logfile" /\ user_input \in LogfileLists
    /\ config \in Configs
    /\ reference_data \in ReferenceDatas
    /\ self_user_input = <<>>
    /\ forecast_row = [state |-> "none"]
    /\ id_array = <<>>
    /\ outcome = "ok"
    /\ exit_status = -1
    /\ fpc = "new"

\* ScienceFarts.__init__: format_user_input, then the carbon intensity and the
\* energy price of the configuration.
Construct ==
    /\ fpc = "new"
    /\ LET r         == FormatUserInput(user_input)
           intensity == DetermineIntensity(config)
           price_    == DeterminePrice(config)
           failed    == IF r.res # "value" THEN r
                        ELSE IF intensity.res # "value" THEN intensity
                        ELSE price_
       IN  IF failed.res = "value"
           THEN /\ self_user_input' = r.v
                /\ fpc' = "constructed"
                /\ UNCHANGED <<outcome, exit_status>>
           ELSE /\ outcome' = failed.res
                /\ exit_status' = ExitStatus(failed)
                /\ fpc' = "failed"
                /\ UNCHANGED self_user_input
    /\ UNCHANGED <<user_input, input_type, forecast_row, id_array, config, reference_data>>
    /\ UNCHANGED <<tariffVars, aggVars, memVars, traceVars, scrapeVars, dorkVars>>

\* ScienceFarts.run, forecast branch: ForecastStats(self.user_input).run().
\* Times are in seconds from now.
RunForecastStats ==
    /\ fpc = "constructed"
    /\ input_type = "forecast"
    /\ LET walltime == WalltimeSeconds(self_user_input[1])
           memory_  == ConvertMemoryToGb(self_user_input[2])
           cores    == self_user_input[3]
           failed   == IF walltime.res # "value" THEN walltime ELSE memory_
       IN  IF failed.res # "value"
           THEN /\ outcome' = failed.res
                /\ exit_status' = ExitStatus(failed)
                /\ fpc' = "failed"
                /\ UNCHANGED forecast_row
           ELSE /\ forecast_row' =
                     [state |-> "set",
                      start_time |-> 0,
                      end_time |-> walltime.v.q[1],
                      cores |-> cores,
                      gpus |-> self_user_input[4],
                      memory_gb |-> memory_.v.q,
                      cpu_time |-> PyMul(walltime.v.q[1], cores),
                      walltime |-> walltime.v.q[1],
                      ram_sticks |-> 0,
                      cpu_efficiency |-> [kind |-> "unset", val |-> <<0, 1>>],
                      energy_kwh |-> [kind |-> "unset", val |-> <<0, 1>>],
                      per_hour_kWh |-> [kind |-> "unset", val |-> <<0, 1>>]]
                /\ fpc' = "stats"
                /\ UNCHANGED <<outcome, exit_status>>
    /\ UNCHANGED <<user_input, input_type, self_user_input, id_array, config, reference_data>>
    /\ UNCHANGED <<tariffVars, aggVars, memVars, traceVars, scrapeVars, dorkVars>>

\* row["cpu_time"] / row["cores"] / row["walltime"].total_seconds() on the
\* forecast row: a str operand raises TypeError; 0 / 0 raises
\* ZeroDivisionError on Python ints and gives nan on numpy integers, and which
\* of the two a row of the frame holds depends on the pandas build.
ForecastEfficiency(r) ==
    IF r.cpu_time.t = "str" \/ r.cores.t = "str" THEN {Raised("TypeError")}
    ELSE IF r.cores.q[1] = 0 THEN {Raised("ZeroDivisionError"), Value(NaN)}
    ELSE {Value(Num(RDiv(RDiv(r.cpu_time.q, r.cores.q), RInt(r.walltime))))}

\* A faulty variant, for C11: the memory term charged per second of walltime.
CalculateEnergyRowWalltime(r, ref) ==
    LET energy_use_ram == RMul(RMul(RInt(r.walltime), RInt(r.ram_sticks)), ref.mem_16GB)
        energy_use_cpu == RMul(r.cpu_time.q, ref.cpu_core)
        energy_use_gpu == RMul(RMul(r.gpus.q, RInt(r.walltime)), ref.gpu_full)
    IN  RDiv(RAdd(RAdd(energy_use_cpu, energy_use_ram), energy_use_gpu), RInt(3600))

\* calculate_energy_row(row)
CalculateEnergyRow(r, ref) ==
    LET energy_use_ram == RMul(RMul(r.cpu_time.q, RInt(r.ram_sticks)), ref.mem_16GB)
        energy_use_cpu == RMul(r.cpu_time.q, ref.cpu_core)
        energy_use_gpu == RMul(RMul(r.gpus.q, RInt(r.walltime)), ref.gpu_full)
    IN  RDiv(RAdd(RAdd(energy_use_cpu, energy_use_ram), energy_use_gpu), RInt(3600))

\* calculate_resource_use on the forecast row: ram_sticks, cpu_efficiency,
\* energy_kwh and per_hour_kWh, column after column; an exception in one column
\* leaves the later ones uncomputed.  (The two walks that follow are
\* SpecTariff.)
CalculateResourceUseForecast ==
    /\ fpc = "stats"
    /\ \E e \in ForecastEfficiency(forecast_row) :
          LET sticks == [forecast_row EXCEPT
                           !.ram_sticks = RCeil(RDiv(forecast_row.memory_gb, RInt(16)))]
              energy == CalculateEnergyRow(sticks, reference_data)
          IN  IF e.res = "value"
              THEN /\ forecast_row' =
                        [sticks EXCEPT
                           !.cpu_efficiency = e.v,
                           !.energy_kwh = Num(energy),
                           !.per_hour_kWh = Num(RDiv(energy, Rat(sticks.walltime, 3600)))]
                   /\ fpc' = "resource_use"
                   /\ UNCHANGED <<outcome, exit_status>>
              ELSE /\ forecast_row' = sticks
                   /\ outcome' = e.res
                   /\ exit_status' = ExitStatus(e)
                   /\ fpc' = "failed"
    /\ UNCHANGED <<user_input, input_type, self_user_input, id_array, config, reference_data>>
    /\ UNCHANGED <<tariffVars, aggVars, memVars, traceVars, scrapeVars, dorkVars>>

\* ScienceFarts.run, the other branch: JobStats(self.user_input, input_type).
\* For a job ID or a job array the list becomes id_array; for a logfile
\* get_ids_from_logfile calls open() on the list format_user_input returned.
RunJobStats ==
    /\ fpc = "constructed"
    /\ input_type # "forecast"
    /\ IF input_type \in {"jobid", "jobarray"}
       THEN id_array' = self_user_input /\ fpc' = "traced" /\ UNCHANGED <<outcome, exit_status>>
       ELSE /\ outcome' = "TypeError"
            /\ exit_status' = ExitStatus(Raised("TypeError"))
            /\ fpc' = "failed"
            /\ UNCHANGED id_array
    /\ UNCHANGED <<user_input, input_type, self_user_input, forecast_row, config, reference_data>>
    /\ UNCHANGED <<tariffVars, aggVars, memVars, traceVars, scrapeVars, dorkVars>>

Init == IdleTariffVars /\ IdleAggVars /\ InitInputVars /\ IdleMemVars /\ IdleTraceVars /\ IdleScrapeVars /\ IdleDorkVars
Next == Construct \/ RunForecastStats \/ CalculateResourceUseForecast \/ RunJobStats
Spec == Init /\ [][Next]_vars


(***************************************************************************)
(* What the zero-value floors are specified to do.                         *)
(***************************************************************************)
ForecastRowBuilt == input_type = "forecast" /\ forecast_row.state = "set"
ZeroCores        == user_input[3] \in {PyInt(0), PyStr(<<"0">>)}

\* C8: a forecast whose memory argument is "0" is processed with
\* memory_gb = 1.
C8_ZeroMemoryIsOneGb ==
    (ForecastRowBuilt /\ user_input[2] = PyStr(<<"0">>)) =>
        forecast_row.memory_gb = <<1, 1>>

\* C9: a forecast whose core count is zero, as the int 0 or the string "0",
\* is processed as 1 core: cores = 1, cpu_time = walltime_seconds * 1, and the
\* division by cores in cpu_efficiency is defined.
C9_ZeroCoresIsOneCore ==
    (input_type = "forecast" /\ ZeroCores) =>
        /\ forecast_row.state = "set" =>
              /\ forecast_row.cores = PyInt(1)
              /\ forecast_row.cpu_time = PyInt(forecast_row.walltime)
        /\ fpc = "resource_use" => forecast_row.cpu_efficiency.kind = "num"
        /\ outcome \notin {"ZeroDivisionError", "TypeError"}

\* C10: the floors leave job IDs and logfile arguments alone: construction
\* succeeds for a list of any length, self.user_input is the list given, and
\* JobStats gets every ID of it, in order.
C10_JobInputUnchanged ==
    (input_type \in {"jobid", "jobarray", "logfile"} /\ fpc # "new") =>
        /\ fpc # "failed"
        /\ self_user_input = user_input
        /\ fpc = "traced" => id_array = user_input


(***************************************************************************)
(* What the energy of a forecast is specified to be.                       *)
(***************************************************************************)
\* (cpu_time * power_per_core + cpu_time * ram_sticks * power_per_stick
\*  + gpus * walltime_seconds * power_per_gpu) / 3600
EnergyKwh(cpu_time_, ram_sticks_, gpus_, walltime_, ref) ==
    RDiv(RAdd(RAdd(RMul(RInt(cpu_time_), ref.cpu_core),
                   RMul(RInt(cpu_time_ * ram_sticks_), ref.mem_16GB)),
              RMul(RInt(gpus_ * walltime_), ref.gpu_full)),
         RInt(3600))

ExampleForecast  == << PyStr(<<"0", "1", ":", "0", "0", ":", "0", "0">>),
                       PyStr(<<"1", "6", "g", "b">>), PyInt(4), PyInt(0) >>
ExampleReference == [cpu_core |-> <<1, 100>>, mem_16GB |-> <<1, 200>>, gpu_full |-> <<3, 10>>]
EnergyComputed   == ForecastRowBuilt /\ forecast_row.energy_kwh.kind = "num"

DigitChars == {"0", "1", "6"}
Numbers    == SeqsUpTo(DigitChars, MaxDigits)            \* includes the empty string
Suffixes   == { <<>>, <<"k", "b">>, <<"m", "b">>, <<"g", "b">>, <<"t", "b">>,
                <<"K", "B">>, <<"M", "B">>, <<"G", "B">>, <<"T", "B">>,
                <<"G", "b">>, <<"g", "B">>, <<"x", "b">>, <<"g">>, <<"b">>,
                <<"g", "i", "b">>, <<"k", "g", "b">> }
MemoryStrings == { PyStr(n \o u) : n \in Numbers, u \in Suffixes }

InitMemVars ==
    /\ mem_arg \in MemoryStrings \cup {PyInt(0), PyInt(4)}
    /\ mem_result = [res |-> "none"]
    /\ mpc = "call"

\* memory = convert_memory_to_gb(memory)
CallConvertMemoryToGb ==
    /\ mpc = "call"
    /\ mem_result' = ConvertMemoryToGb(mem_arg)
    /\ mpc' = "done"
    /\ UNCHANGED mem_arg
    /\ UNCHANGED <<tariffVars, aggVars, inputVars, traceVars, scrapeVars, dorkVars>>

InitMemory == IdleTariffVars /\ IdleAggVars /\ IdleInputVars /\ InitMemVars /\ IdleTraceVars /\ IdleScrapeVars /\ IdleDorkVars
NextMemory == CallConvertMemoryToGb
SpecMemory == InitMemory /\ [][NextMemory]_vars

(***************************************************************************)
(* What the conversion is specified to do.                                 *)
(***************************************************************************)
LowerChar(c) == CASE c = "K" -> "k" [] c = "M" -> "m" [] c = "G" -> "g"
                  [] c = "T" -> "t" [] c = "B" -> "b" [] c = "X" -> "x"
                  [] c = "I" -> "i" [] OTHER -> c
Lower(str)   == [i \in 1..Len(str) |-> LowerChar(str[i])]

\* The number of a string: its leading digits
LeadingDigits(str) ==
    LET n == CHOOSE k \in 0..Len(str) :
                 /\ \A i \in 1..k : str[i] \in DOMAIN DigitVal
                 /\ (k < Len(str) => str[k + 1] \notin DOMAIN DigitVal)
    IN  SubSeq(str, 1, n)
\* and what follows it
SuffixOf(str) == SubSeq(str, Len(LeadingDigits(str)) + 1, Len(str))

\* GB per unit
UnitFactor(u) == CASE u = <<"k", "b">> -> <<1, 1000000>>
                   [] u = <<"m", "b">> -> <<1, 1000>>
                   [] u = <<"g", "b">> -> <<1, 1>>
                   [] u = <<"t", "b">> -> <<1000, 1>>
                   [] u = <<>>         -> <<1, 1000>>

SupportedUnits == {<<"k", "b">>, <<"m", "b">>, <<"g", "b">>, <<"t", "b">>}

\* C12: a number followed by nothing (MB) or by kb, mb, gb or tb in any letter
\* case is accepted, and the value returned is the number times the unit's
\* factor in GB.
C12_UnitsAnyCase ==
    (/\ mpc = "done"
     /\ mem_arg.t = "str"
     /\ LeadingDigits(mem_arg.s) # <<>>
     /\ Lower(SuffixOf(mem_arg.s)) \in SupportedUnits \cup {<<>>}) =>
        /\ mem_result.res = "value"
        /\ mem_result.v.q = RMul(RInt(ParseInt(LeadingDigits(mem_arg.s))),
                                 UnitFactor(Lower(SuffixOf(mem_arg.s))))

UnsupportedSuffix(str) ==
    ~IsIntLiteral(str) /\ Lower(LastTwo(str)) \notin SupportedUnits

\* C13: for a memory string whose suffix is not a supported unit the call
\* returns no value: it ends in an exit or a raised error.
C13_UnsupportedNeverReturns ==
    (mpc = "done" /\ mem_arg.t = "str" /\ UnsupportedSuffix(mem_arg.s)) =>
        mem_result.res \in {"SystemExit", "ValueError"}

C13_Witness ==
    /\ mpc = "done"
    /\ mem_arg = PyStr(<<"1", "6", "x", "b">>)
    /\ mem_result.res = "SystemExit"


(***************************************************************************)
(* The failures of ScienceFarts a user can correct.                        *)
(***************************************************************************)
\* The process printed a message and exited on its own
ReportedFailure == fpc = "failed" /\ outcome = "SystemExit"

\* C14: a failure the user can correct (an unrecognized memory unit, a
\* missing price or carbon-intensity configuration) ends the process with a
\* non-zero exit status.
C14_FailureExitsNonZero ==
    ReportedFailure => exit_status # 0


(***************************************************************************)
(* JobStats.get_tracejob_figures followed by calculate_resource_use        *)
(* (SpecTrace).  A line of tracejob output is kept as the fields the       *)
(* regular expressions take from it; times are seconds on one clock.       *)
(* tracejob ends every line it prints with a newline, so split on newline  *)
(* leaves an empty string behind the last line.                            *)
(***************************************************************************)
NowTime == 20000                      \* datetime.datetime.now()

NoTime      == [some |-> FALSE, t |-> 0]          \* None
SomeTime(t) == [some |-> TRUE,  t |-> t]
PyTimedelta(n) == [t |-> "timedelta", s |-> <<>>, q |-> <<n, 1>>]

\* "<time> ... Job Run at request of ..."
StartLine(t) ==
    [kind |-> "start", time |-> t, cput |-> 0, mem |-> PyStr(<<>>), walltime |-> 0]
\* "<time> ... resources_used.cput=.. resources_used.mem=.. resources_used.walltime=.."
ResourceLine(t, cput, mem, walltime) ==
    [kind |-> "resources", time |-> t, cput |-> cput, mem |-> mem, walltime |-> walltime]
\* any other line, the empty one included
OtherLine ==
    [kind |-> "other", time |-> 0, cput |-> 0, mem |-> PyStr(<<>>), walltime |-> 0]

OneMb == PyStr(<<"1", "0", "0", "0", "k", "b">>)
TraceLines ==
    { StartLine(1000),
      ResourceLine(9000, 7200, OneMb, 7200),      \* walltime 02:00:00, cput 7200
      ResourceLine(8000, 0, OneMb, 3600),         \* no cpu time used
      ResourceLine(7000, 10, OneMb, 0),           \* walltime 00:00:00
      OtherLine }
Traces        == SeqsUpTo(TraceLines, MaxLines)
\* the traces of the other job of a batch: nothing logged, a completed job,
\* a job that started and never reported its resources
SiblingTraces == { <<>>,
                   <<StartLine(1000), ResourceLine(9000, 7200, OneMb, 7200)>>,
                   <<StartLine(1000), OtherLine>> }

Job1 == PyStr(<<"1">>)
Job2 == PyStr(<<"2">>)
JobNames   == {Job1, Job2}
\* (a logfile's job IDs are traced as those of "jobid" are)
TraceModes == {"jobid", "jobarray"}

\* tracelog.stdout.decode().split('\n')
SplitLines(lines) == lines \o <<OtherLine>>

\* The per-job lists and the locals of the line loop
NewJobLists ==
    [start_times |-> <<>>, walltimes |-> <<>>, cpu_times |-> <<>>, memories |-> <<>>,
     end_times |-> <<>>, start_time |-> NoTime, end_time |-> NoTime, brk |-> FALSE,
     res |-> Value(PyNone)]

\* the body of "for line in tracelog"
ProcessLine(acc, line, mode) ==
    LET a0 == [acc EXCEPT !.start_time = NoTime, !.end_time = NoTime]
        a1 == IF line.kind = "start" /\ mode # "jobarray"
              THEN [a0 EXCEPT !.start_time = SomeTime(line.time),
                              !.start_times = Append(@, line.time)]
              ELSE a0
        mem == ConvertMemoryToGb(line.mem)
    IN  IF line.kind # "resources" THEN a1
        ELSE IF mem.res # "value" THEN [a1 EXCEPT !.res = mem]
        ELSE LET a2 == [a1 EXCEPT !.cpu_times = Append(@, PyInt(line.cput)),
                                  !.memories  = Append(@, mem.v.q),
                                  !.end_time  = SomeTime(line.time),
                                  !.end_times = Append(@, line.time),
                                  !.walltimes = Append(@, line.walltime)]
             IN  IF mode = "jobarray"
                 THEN [a2 EXCEPT !.start_time = SomeTime(line.time - line.walltime),
                                 !.start_times = Append(@, line.time - line.walltime)]
                 ELSE [a2 EXCEPT !.brk = TRUE]

\* "for line in tracelog", up to the break
RECURSIVE ParseLines(_, _, _)
ParseLines(log, acc, mode) ==
    IF log = <<>> \/ acc.brk \/ acc.res.res # "value" THEN acc
    ELSE ParseLines(Tail(log), ProcessLine(acc, Head(log), mode), mode)

\* "if start_time and not end_time": the job failed, nothing was registered
FailedJob(acc) ==
    IF acc.start_time.some /\ ~acc.end_time.some
    THEN [acc EXCEPT !.end_time  = SomeTime(NowTime),
                     !.end_times = Append(@, NowTime),
                     !.cpu_times = Append(@, PyTimedelta(NowTime - acc.start_time.t)),
                     !.memories  = Append(@, <<100000, 1>>),
                     !.walltimes = Append(@, NowTime - acc.start_time.t)]
    ELSE acc

\* cores = [math.ceil(cpu_time / walltime.total_seconds()) for ... in zip(...)]
RECURSIVE CoresOf(_, _)
CoresOf(cpu_times, walltimes) ==
    IF cpu_times = <<>> \/ walltimes = <<>> THEN Value(<<>>)
    ELSE IF Head(walltimes) = 0 THEN Raised("ZeroDivisionError")
    ELSE IF Head(cpu_times).t = "timedelta" THEN Raised("TypeError")
    ELSE LET rest == CoresOf(Tail(cpu_times), Tail(walltimes))
         IN  IF rest.res # "value" THEN rest
             ELSE Value(<<RCeil(Rat(Head(cpu_times).q[1], Head(walltimes)))>> \o rest.v)

\* A faulty variant, for C19: the lists are extended before the check.
ContributionUnchecked(acc, cores) ==
    [start_times |-> acc.start_times, end_times |-> acc.end_times, cores |-> cores,
     memories |-> acc.memories, cpu_times |-> acc.cpu_times, walltimes |-> acc.walltimes]

\* What one job ID adds to the six columns: nothing when len(cores) == 0
\* (the continue), its lists otherwise.
Contribution(acc, cores) ==
    IF Len(cores) = 0
    THEN [start_times |-> <<>>, end_times |-> <<>>, cores |-> <<>>,
          memories |-> <<>>, cpu_times |-> <<>>, walltimes |-> <<>>]
    ELSE [start_times |-> acc.start_times, end_times |-> acc.end_times, cores |-> cores,
          memories |-> acc.memories, cpu_times |-> acc.cpu_times, walltimes |-> acc.walltimes]

\* The lists of one job ID after the line loop and the failed-job branch
JobLists(job, mode) == FailedJob(ParseLines(SplitLines(tracelog[job]), NewJobLists, mode))

InitTraceVars ==
    /\ input_type \in TraceModes
    /\ id_array \in SeqsUpTo(JobNames, MaxBatch)
    /\ tracelog \in { [j \in JobNames |-> IF j = Job1 THEN a ELSE b] :
                         a \in Traces, b \in SiblingTraces }
    /\ reference_data \in ReferenceDatas
    /\ user_input = <<>>
    /\ self_user_input = <<>>
    /\ forecast_row = [state |-> "none"]
    /\ config = [state |-> "none"]
    /\ outcome = "ok"
    /\ exit_status = -1
    /\ fpc = "idle"
    /\ job_index = 1
    /\ start_time_list = <<>>
    /\ end_time_list = <<>>
    /\ cores_list = <<>>
    /\ memory_list = <<>>
    /\ cpu_time_list = <<>>
    /\ walltime_list = <<>>
    /\ skipped = <<>>
    /\ trace_df = <<>>
    /\ tpc = "loop"

restOfInput == <<user_input, input_type, self_user_input, forecast_row, id_array,
                 config, reference_data, fpc>>

\* One iteration of "for job_id in self.id_array"
TraceJob ==
    /\ tpc = "loop"
    /\ job_index <= Len(id_array)
    /\ LET job    == id_array[job_index]
           acc    == JobLists(job, input_type)
           cores  == CoresOf(acc.cpu_times, acc.walltimes)
           failed == IF acc.res.res # "value" THEN acc.res ELSE cores
       IN  IF failed.res # "value"
           THEN /\ outcome' = failed.res
                /\ exit_status' = ExitStatus(failed)
                /\ tpc' = "failed"
                /\ UNCHANGED <<job_index, listVars, skipped>>
           ELSE LET c == Contribution(acc, cores.v)
                IN  /\ start_time_list' = start_time_list \o c.start_times
                    /\ end_time_list'   = end_time_list \o c.end_times
                    /\ cores_list'      = cores_list \o c.cores
                    /\ memory_list'     = memory_list \o c.memories
                    /\ cpu_time_list'   = cpu_time_list \o c.cpu_times
                    /\ walltime_list'   = walltime_list \o c.walltimes
                    /\ skipped' = IF Len(cores.v) = 0 THEN Append(skipped, job) ELSE skipped
                    /\ job_index' = job_index + 1
                    /\ UNCHANGED <<outcome, exit_status, tpc>>
    /\ UNCHANGED <<tracelog, trace_df>>
    /\ UNCHANGED restOfInput
    /\ UNCHANGED <<tariffVars, aggVars, memVars, scrapeVars, dorkVars>>

\* A faulty variant, for C20: the table is built whatever the lists hold.
NoJobsFoundNever(list) == FALSE

\* "if len(start_time_list) == 0"
NoJobsFound(list) == Len(list) = 0

\* pd.DataFrame({...}) accepts columns of one length only
SameLength ==
    \A n \in {Len(end_time_list), Len(cores_list), Len(memory_list),
               Len(cpu_time_list), Len(walltime_list)} : n = Len(start_time_list)

\* After the loop: the no-jobs exit, or the table
BuildStatsDf ==
    /\ tpc = "loop"
    /\ job_index > Len(id_array)
    /\ IF NoJobsFound(start_time_list)
       THEN /\ outcome' = "SystemExit"
            /\ exit_status' = ExitStatus(SysExit(PyInt(0)))
            /\ tpc' = "exited"
            /\ UNCHANGED trace_df
       ELSE IF ~SameLength
       THEN /\ outcome' = "ValueError"
            /\ exit_status' = ExitStatus(Raised("ValueError"))
            /\ tpc' = "failed"
            /\ UNCHANGED trace_df
       ELSE /\ trace_df' = [i \in 1..Len(start_time_list) |->
                              [start_time |-> start_time_list[i],
                               end_time |-> end_time_list[i],
                               cores |-> PyInt(cores_list[i]),
                               gpus |-> PyInt(0),
                               memory_gb |-> memory_list[i],
                               cpu_time |-> cpu_time_list[i],
                               walltime |-> walltime_list[i],
                               ram_sticks |-> 0,
                               cpu_efficiency |-> [kind |-> "unset", val |-> <<0, 1>>],
                               energy_kwh |-> [kind |-> "unset", val |-> <<0, 1>>],
                               per_hour_kWh |-> [kind |-> "unset", val |-> <<0, 1>>],
                               cost_DKK |-> [kind |-> "unset", val |-> <<0, 1>>],
                               emissions_g |-> [kind |-> "unset", val |-> <<0, 1>>]]]
            /\ tpc' = "built"
            /\ UNCHANGED <<outcome, exit_status>>
    /\ UNCHANGED <<tracelog, job_index, listVars, skipped>>
    /\ UNCHANGED restOfInput
    /\ UNCHANGED <<tariffVars, aggVars, memVars, scrapeVars, dorkVars>>

\* calculate_resource_use on the table of traced jobs: ram_sticks,
\* cpu_efficiency, energy_kwh and per_hour_kWh, column after column.  0 / 0 in
\* cpu_efficiency raises or gives nan as for the forecast row, one way for the
\* whole table.  (The two walks follow in CalculateCostTraced.)
CalculateResourceUseTraced ==
    /\ tpc = "built"
    /\ \E nan \in BOOLEAN :
          LET sticks(r) == [r EXCEPT !.ram_sticks = RCeil(RDiv(r.memory_gb, RInt(16)))]
              eff(r)    == IF r.cores.q[1] = 0
                           THEN (IF nan THEN Value(NaN) ELSE Raised("ZeroDivisionError"))
                           ELSE CHOOSE e \in ForecastEfficiency(r) : TRUE
              energy(r) == CalculateEnergyRow(sticks(r), reference_data)
          IN  IF \E i \in 1..Len(trace_df) : eff(trace_df[i]).res # "value"
              THEN /\ trace_df' = [i \in 1..Len(trace_df) |-> sticks(trace_df[i])]
                   /\ outcome' = "ZeroDivisionError"
                   /\ exit_status' = ExitStatus(Raised("ZeroDivisionError"))
                   /\ tpc' = "failed"
              ELSE /\ trace_df' =
                        [i \in 1..Len(trace_df) |->
                           [sticks(trace_df[i]) EXCEPT
                              !.cpu_efficiency = eff(trace_df[i]).v,
                              !.energy_kwh = Num(energy(trace_df[i])),
                              !.per_hour_kWh = Num(RDiv(energy(trace_df[i]),
                                                        Rat(trace_df[i].walltime, 3600)))]]
                   /\ tpc' = "resource_use"
                   /\ UNCHANGED <<outcome, exit_status>>
    /\ UNCHANGED <<tracelog, job_index, listVars, skipped>>
    /\ UNCHANGED restOfInput
    /\ UNCHANGED <<tariffVars, aggVars, memVars, scrapeVars, dorkVars>>

\* The tick a time in seconds lies in.
TickOf(seconds) == (seconds * TicksPerHour) \div 3600

\* The walk of calculate_energy_price_row (table "price") and of
\* calculate_emissions_row (table "carbon") over a row whose times are in
\* seconds: the total returned.
RECURSIVE WalkRow(_, _, _, _, _, _)
WalkRow(cur, end, perHour, ref, table, total) ==
    IF ~LoopGuard(cur, end) THEN total
    ELSE LET line      == IF table = "price" THEN WeekdayClass(TickOf(cur))
                          ELSE MonthIndex(TickOf(cur))
             rate      == LookupRate(ref, line, HourOfDay(TickOf(cur)))
             time_diff_ == Rat(Min(cur + 3600, end) - cur, 3600)
         IN  WalkRow(cur + 3600, end, perHour, ref, table,
                     RAdd(total, RMul(RMul(RInt(rate), perHour), time_diff_)))

\* The rest of calculate_resource_use on the table of traced jobs: cost_DKK
\* and emissions_g, each by its walk from start_time to end_time.
CalculateCostTraced ==
    /\ tpc = "resource_use"
    /\ trace_df' =
          [i \in 1..Len(trace_df) |->
             LET r == trace_df[i]
             IN  [r EXCEPT
                    !.cost_DKK = Num(WalkRow(r.start_time, r.end_time, r.per_hour_kWh.val,
                                             energy_price, "price", <<0, 1>>)),
                    !.emissions_g = Num(WalkRow(r.start_time, r.end_time, r.per_hour_kWh.val,
                                                carbon_intensity, "carbon", <<0, 1>>))]]
    /\ tpc' = "costed"
    /\ UNCHANGED <<tracelog, job_index, listVars, skipped>>
    /\ UNCHANGED <<restOfInput, outcome, exit_status>>
    /\ UNCHANGED <<tariffVars, aggVars, memVars, scrapeVars, dorkVars>>

\* The tariff of a run over traced jobs: the scalar rates of config.yaml.
ScalarTariffVars ==
    /\ row = NoRow
    /\ energy_price = Scalar(3)
    /\ carbon_intensity = Scalar(5)
    /\ current_time = 0
    /\ weekday = 0 /\ month = 0 /\ hour = 0 /\ time_diff = 0 /\ price = 0
    /\ total_price = 0 /\ total_emissions = 0
    /\ cost_DKK = 0 /\ emissions_g = 0
    /\ iterations = 0 /\ sum_diff = 0
    /\ pc = "idle"

InitTrace == ScalarTariffVars /\ IdleAggVars /\ IdleMemVars /\ InitTraceVars /\ IdleScrapeVars /\ IdleDorkVars
NextTrace == TraceJob \/ BuildStatsDf \/ CalculateResourceUseTraced \/ CalculateCostTraced
SpecTrace == InitTrace /\ [][NextTrace]_vars


(***************************************************************************)
(* What the trace parser is specified to do.                               *)
(***************************************************************************)
HasResources(job) == \E i \in 1..Len(tracelog[job]) : tracelog[job][i].kind = "resources"
HasStart(job)     == \E i \in 1..Len(tracelog[job]) : tracelog[job][i].kind = "start"
FirstResource(job) ==
    LET i == CHOOSE k \in 1..Len(tracelog[job]) :
                 /\ tracelog[job][k].kind = "resources"
                 /\ \A j \in 1..(k - 1) : tracelog[job][j].kind # "resources"
    IN  tracelog[job][i]
FirstStart(job) ==
    LET i == CHOOSE k \in 1..Len(tracelog[job]) :
                 /\ tracelog[job][k].kind = "start"
                 /\ \A j \in 1..(k - 1) : tracelog[job][j].kind # "start"
    IN  tracelog[job][i]

\* the job IDs the loop has dealt with
Processed   == SubSeq(id_array, 1, job_index - 1)
\* the loop ended in an exception while it dealt with id_array[job_index]
ParserFailed == tpc = "failed" /\ job_index <= Len(id_array)

\* C15: every inferred core count is an integer >= 1, also for a record with
\* cpu time 0, and the inference never fails: a record with walltime 0 does
\* not end in a division by zero.
C15_CoresAtLeastOne ==
    /\ \A i \in 1..Len(cores_list) : cores_list[i] >= 1
    /\ outcome # "ZeroDivisionError"

\* the first resources-used lines of the jobs that have one, in order
RECURSIVE FirstResources(_)
FirstResources(ids) ==
    IF ids = <<>> THEN <<>>
    ELSE (IF HasResources(Head(ids)) THEN <<FirstResource(Head(ids))>> ELSE <<>>)
         \o FirstResources(Tail(ids))

\* C16: in single-job mode every job ID with a resources-used line adds
\* exactly one entry, that of its first resources-used line, to each of the
\* six columns, however many start markers its trace holds, so the columns
\* have one length and the table can be built.
C16_OneRecordPerJob ==
    input_type = "jobid" =>
        /\ tpc = "loop" =>
              LET first == FirstResources(Processed)
              IN  /\ Len(start_time_list) = Len(first)
                  /\ Len(cores_list) = Len(first)
                  /\ Len(memory_list) = Len(first)
                  /\ cpu_time_list = [i \in 1..Len(first) |-> PyInt(first[i].cput)]
                  /\ end_time_list = [i \in 1..Len(first) |-> first[i].time]
                  /\ walltime_list = [i \in 1..Len(first) |-> first[i].walltime]
        /\ outcome # "ValueError"

\* all resources-used lines of the jobs, in order
RECURSIVE AllResources(_)
AllResources(ids) ==
    IF ids = <<>> THEN <<>>
    ELSE SelectSeq(tracelog[Head(ids)], LAMBDA l : l.kind = "resources")
         \o AllResources(Tail(ids))

\* C17: in job-array mode every resources-used line gives one record, with
\* start_time = end_time - walltime and cores = ceil(cput / walltime_seconds),
\* start markers adding nothing; a line with walltime 02:00:00 and cput 7200
\* gives start_time = end_time - 7200 s and cores = 1.
C17_ArrayRecords ==
    input_type = "jobarray" =>
        /\ ~ParserFailed
        /\ tpc = "loop" =>
              LET lines == AllResources(Processed)
              IN  /\ end_time_list = [i \in 1..Len(lines) |-> lines[i].time]
                  /\ walltime_list = [i \in 1..Len(lines) |-> lines[i].walltime]
                  /\ start_time_list = [i \in 1..Len(lines) |-> lines[i].time - lines[i].walltime]
                  /\ Len(cores_list) = Len(lines)
                  /\ \A i \in 1..Len(lines) :
                        /\ lines[i].walltime > 0 =>
                              cores_list[i] = RCeil(Rat(lines[i].cput, lines[i].walltime))
                        /\ (lines[i].walltime = 7200 /\ lines[i].cput = 7200) =>
                              cores_list[i] = 1

\* a job that started and never reported its resources
Crashed(job) == HasStart(job) /\ ~HasResources(job)

\* C18: in single-job mode a job ID whose trace holds a start marker and no
\* resources-used line is not skipped: it has a record with end_time = now,
\* walltime = now - start_time, cores = 1 and memory_gb = 0.1.
C18_CrashedJobRecorded ==
    input_type = "jobid" =>
        \A i \in 1..Len(Processed) :
            Crashed(Processed[i]) =>
                /\ \A k \in 1..Len(skipped) : skipped[k] # Processed[i]
                /\ \E k \in 1..Min(Min(Len(end_time_list), Len(walltime_list)),
                                   Min(Len(cores_list), Len(memory_list))) :
                      /\ end_time_list[k] = NowTime
                      /\ walltime_list[k] = NowTime - FirstStart(Processed[i]).time
                      /\ cores_list[k] = 1
                      /\ memory_list[k] = <<1, 10>>

\* The six columns a batch of job IDs with resources-used lines gives
RECURSIVE Collect(_, _)
Collect(ids, mode) ==
    IF ids = <<>>
    THEN [start_times |-> <<>>, end_times |-> <<>>, cores |-> <<>>,
          memories |-> <<>>, cpu_times |-> <<>>, walltimes |-> <<>>]
    ELSE LET acc  == JobLists(Head(ids), mode)
             rest == Collect(Tail(ids), mode)
         IN  [start_times |-> acc.start_times \o rest.start_times,
              end_times   |-> acc.end_times \o rest.end_times,
              cores       |-> CoresOf(acc.cpu_times, acc.walltimes).v \o rest.cores,
              memories    |-> acc.memories \o rest.memories,
              cpu_times   |-> acc.cpu_times \o rest.cpu_times,
              walltimes   |-> acc.walltimes \o rest.walltimes]

NoRecords == /\ start_time_list = <<>> /\ end_time_list = <<>> /\ cores_list = <<>>
             /\ memory_list = <<>> /\ cpu_time_list = <<>> /\ walltime_list = <<>>

\* C20: when the loop ends with no record at all the process reports that no
\* jobs were found and exits with status 0, no table having been built; a
\* table handed to calculate_resource_use has at least one row.
C20_NoJobsExitsCleanly ==
    /\ (job_index > Len(id_array) /\ tpc # "loop" /\ NoRecords) =>
          /\ tpc = "exited"
          /\ outcome = "SystemExit"
          /\ exit_status = 0
          /\ trace_df = <<>>
    /\ tpc \in {"built", "resource_use"} => Len(trace_df) >= 1

C20_Witness ==
    /\ tpc = "exited"
    /\ NoRecords
    /\ skipped = id_array
    /\ Len(id_array) >= 1


(***************************************************************************)
(* scrapeTorque.py: the scraper of the dated accounting files.             *)
(*                                                                         *)
(* A day is a number of days since 2020-01-01 (day 0, the date used for an *)
(* empty store).  An accounting line is a record of what each regular      *)
(* expression of extract_torque_data can find in it: the text after        *)
(* "Exit_status=", after "user=", and so on, or Absent.  Numbers in a line *)
(* and in a row are strings, as in the code.                               *)
(***************************************************************************)
MaxDay      == 2      \* last day the clock reaches
MaxAppended == 3      \* lines the scheduler writes in all
MaxRuns     == 2      \* scrape runs made

Absent == <<"(no match)">>

\* str(n) for an int n >= 0
RECURSIVE IntToStr(_)
IntToStr(n) ==
    LET d == CHOOSE c \in DOMAIN DigitVal : DigitVal[c] = n % 10
    IN  IF n < 10 THEN <<d>> ELSE Append(IntToStr(n \div 10), d)

\* round(x) of Python 3 for a rational x >= 0: to the nearest int, ties to even
Round(x) ==
    LET f == x[1] \div x[2]
        r == x[1] - f * x[2]
    IN  IF 2 * r < x[2] THEN f
        ELSE IF 2 * r > x[2] THEN f + 1
        ELSE IF f % 2 = 0 THEN f ELSE f + 1

\* A line of a completed job as the scheduler writes it.
JobLine ==
    [exit_status   |-> <<"0">>,
     user          |-> <<"a">>,
     req_walltime  |-> <<"0", "1", ":", "0", "0", ":", "0", "0">>,
     req_mem       |-> <<"4", "g", "b">>,
     req_nodes     |-> <<"1">>,
     req_cpus      |-> <<"2">>,
     req_gpus      |-> Absent,
     used_walltime |-> <<"0", "0", ":", "3", "0", ":", "0", "0">>,
     used_mem      |-> <<"2", "0", "4", "8", "k", "b">>,
     used_cput     |-> <<"6", "0">>]
\* What the scheduler writes: the line above; a job killed by a signal
\* (Exit_status=-11); a job that asked for no memory and no cores, written
\* without a user; a job that asked for no walltime; a record of another kind
\* (queued, started, deleted), which has no Exit_status.
AccountingLines ==
    { JobLine,
      [JobLine EXCEPT !.exit_status = <<"-", "1", "1">>, !.user = <<"b">>],
      [JobLine EXCEPT !.user = Absent, !.req_mem = Absent, !.req_cpus = Absent],
      [JobLine EXCEPT !.req_walltime = Absent, !.user = <<"c">>],
      [JobLine EXCEPT !.exit_status = Absent] }

FieldNames == {"exit_status", "user", "req_walltime", "req_mem", "req_nodes",
               "req_cpus", "req_gpus", "used_walltime", "used_mem", "used_cput"}

\* The line written on a day starts with that day's date.
Stamp(line, day) == [f \in FieldNames \cup {"date"} |->
                        IF f = "date" THEN day ELSE line[f]]

\* re.search("Exit_status=-*\d+", line)
IsCompletedJob(line) ==
    /\ line.exit_status # Absent
    /\ LET digits == CHOOSE k \in 1..(Len(line.exit_status) + 1) :
                         /\ \A i \in 1..(k - 1) : line.exit_status[i] = "-"
                         /\ (k <= Len(line.exit_status) => line.exit_status[k] # "-")
       IN  digits <= Len(line.exit_status) /\ line.exit_status[digits] \in DOMAIN DigitVal

\* re.search(patterns[name], line): group(1), or Absent.  The pattern of
\* exit_status is "Exit_status=(\d+)", which wants a digit after the "=".
Search(name, line) ==
    IF name = "exit_status"
    THEN (IF line.exit_status # Absent /\ LeadingDigits(line.exit_status) # <<>>
          THEN LeadingDigits(line.exit_status) ELSE Absent)
    ELSE line[name]

get_line_match(name, line) ==
    IF Search(name, line) # Absent THEN Search(name, line)
    ELSE IF name = "user" THEN <<"s", "e", "r", "v", "e", "r">>
    ELSE IF name = "req_gpus" THEN <<"0">>
    ELSE <<"1">>

walltime_to_seconds(walltime) ==
    LET parts == SplitColon(walltime)
        n     == Len(parts)
        int(i) == ParseInt(parts[i])
    IN  IF n \notin {3, 4} THEN Raised("UnboundLocalError")
        ELSE IF \E i \in 1..n : ~IsIntLiteral(parts[i]) THEN Raised("ValueError")
        ELSE IF n = 3 THEN Value(IntToStr(int(1) * 3600 + int(2) * 60 + int(3)))
        ELSE Value(IntToStr(int(1) * 86400 + int(2) * 3600 + int(3) * 60 + int(4)))

memory_to_mb(mem) ==
    LET LowerLetters == {"a", "b", "c", "d", "e", "f", "g", "h", "i", "j", "k", "l", "m",
                         "n", "o", "p", "q", "r", "s", "t", "u", "v", "w", "x", "y", "z"}
        amount == LeadingDigits(mem)
        rest   == SuffixOf(mem)
        k      == CHOOSE j \in 0..Len(rest) :
                      /\ \A i \in 1..j : rest[i] \in LowerLetters
                      /\ (j < Len(rest) => rest[j + 1] \notin LowerLetters)
        unit   == SubSeq(rest, 1, k)
        number == ParseInt(amount)
    IN  IF mem = <<"1">> THEN Value(IntToStr(180 * 1024))
        ELSE IF amount = <<>> \/ unit = <<>> THEN Raised("AttributeError")
        ELSE IF unit = <<"g", "b">> THEN Value(IntToStr(number * 1024))
        ELSE IF unit = <<"m", "b">> THEN Value(IntToStr(number))
        ELSE IF unit = <<"k", "b">> THEN Value(IntToStr(Round(Rat(number, 1024))))
        ELSE IF unit = <<"b">> THEN Value(IntToStr(Round(Rat(number, 1024 * 1024))))
        ELSE Raised("TypeError")

\* The dictionary data after the loop over patterns (lines 286-287) and, for
\* server logs, the copy of the used figures into the requested ones (291-293).
\* The patterns of server logs have no req_walltime, req_mem and req_nodes.
Matches(line, server) ==
    [name \in FieldNames |->
        IF server /\ name = "req_walltime" THEN get_line_match("used_walltime", line)
        ELSE IF server /\ name = "req_mem" THEN get_line_match("used_mem", line)
        ELSE IF server /\ name = "req_nodes" THEN Absent
        ELSE get_line_match(name, line)]

\* The four conversions of lines 297-300, in order.
Conversions(data) ==
    << walltime_to_seconds(data.req_walltime), walltime_to_seconds(data.used_walltime),
       memory_to_mb(data.req_mem), memory_to_mb(data.used_mem) >>

\* data["req_cpus"], recomputed for server logs (line 303)
ReqCpus(data, used_walltime, server) ==
    IF ~server THEN Value(data.req_cpus)
    ELSE IF ~IsIntLiteral(data.used_cput) THEN Raised("ValueError")
    ELSE IF ParseInt(used_walltime) = 0 THEN Raised("ZeroDivisionError")
    ELSE Value(IntToStr(Round(RAdd(Rat(ParseInt(data.used_cput), ParseInt(used_walltime)),
                                   RInt(1)))))

\* Lines 296-322 on the dictionary data: the row inserted, or the exception
\* raised on the way.
NormaliseRow(logdate, data, conv, server) ==
    IF \E i \in 1..4 : conv[i].res # "value"
    THEN conv[CHOOSE i \in 1..4 : /\ conv[i].res # "value"
                                  /\ \A j \in 1..(i - 1) : conv[j].res = "value"]
    ELSE LET req_cpus == ReqCpus(data, conv[2].v, server)
         IN  IF req_cpus.res # "value" THEN req_cpus
             ELSE IF ~IsIntLiteral(req_cpus.v) \/ (~server /\ ~IsIntLiteral(data.req_nodes))
             THEN Raised("ValueError")
             ELSE Value([logdate          |-> logdate,
                         user             |-> data.user,
                         exit_status      |-> data.exit_status,
                         ngpus            |-> data.req_gpus,
                         nproc            |-> req_cpus.v,
                         walltime_req_sec |-> conv[1].v,
                         walltime_sec     |-> conv[2].v,
                         mem_req_mb       |-> conv[3].v,
                         mem_mb           |-> conv[4].v,
                         cput_req_sec     |-> IntToStr(ParseInt(conv[1].v)
                                                 * ParseInt(req_cpus.v)
                                                 * (IF server THEN 1
                                                    ELSE ParseInt(data.req_nodes))),
                         cput_sec         |-> data.used_cput])

\* The body of "if re.search(...)" for one line.
ExtractRow(line, server) ==
    NormaliseRow(line.date, Matches(line, server),
                 Conversions(Matches(line, server)), server)

\* extract_torque_data over the lines of one file: the rows inserted so far
\* and the exception that ended the loop, if any.
RECURSIVE extract_torque_data(_, _, _)
extract_torque_data(lines, server, pending) ==
    IF lines = <<>> THEN [rows |-> pending, raised |-> "no"]
    ELSE IF ~IsCompletedJob(Head(lines))
    THEN extract_torque_data(Tail(lines), server, pending)
    ELSE LET r == ExtractRow(Head(lines), server)
         IN  IF r.res # "value" THEN [rows |-> pending, raised |-> r.res]
             ELSE extract_torque_data(Tail(lines), server, Append(pending, r.v))

get_last_database_date(rows) ==
    IF Len(rows) = 0 THEN 0
    ELSE CHOOSE d \in {rows[i].logdate : i \in 1..Len(rows)} :
             \A i \in 1..Len(rows) : rows[i].logdate <= d

\* A faulty variant, for C21: the range taken with both ends
build_date_list_both(start_date, end_date) ==
    [i \in 1..Max(0, end_date - start_date + 1) |-> start_date + i - 1]

\* pd.date_range(start_date, end_date, inclusive="right")
build_date_list(start_date, end_date) ==
    [i \in 1..Max(0, end_date - start_date) |-> start_date + i]

\* The for loop of run over the dated files.  os.path.isfile(torque_file)
\* holds from the first line of the day on: the scheduler creates the file of a
\* day with its first line.
RECURSIVE ScrapeFiles(_, _)
ScrapeFiles(dates, pending) ==
    IF dates = <<>> THEN [rows |-> pending, raised |-> "no"]
    ELSE IF Head(dates) \notin DOMAIN torque_files \/ torque_files[Head(dates)] = <<>>
    THEN ScrapeFiles(Tail(dates), pending)
    ELSE LET r == extract_torque_data(torque_files[Head(dates)], server_logs, pending)
         IN  IF r.raised # "no" THEN r ELSE ScrapeFiles(Tail(dates), r.rows)

\* A faulty variant, for C29: a commit after every line
CommitEachLine(scraped) == torque_logs \o scraped.rows

\* What conn.commit() at the end of run makes durable.
Commit(scraped) == IF scraped.raised = "no" THEN torque_logs \o scraped.rows ELSE torque_logs

InitScrapeVars ==
    /\ server_logs \in BOOLEAN
    /\ torque_files = [d \in 1..MaxDay |-> <<>>]
    /\ torque_logs = <<>>
    /\ today = 1
    /\ dirty = FALSE
    /\ runs = 0
    /\ run_result = [outcome |-> "none", inserted |-> 0, repeat |-> FALSE, day |-> 0]

\* ScrapeTorque.run: one run of the script.  An exception leaves run before
\* conn.commit(), and the process ends with the transaction open.
ScrapeRun ==
    /\ runs < MaxRuns
    /\ LET last_date        == get_last_database_date(torque_logs)
           torque_file_list == build_date_list(last_date, today)
           scraped          == ScrapeFiles(torque_file_list, <<>>)
       IN  /\ torque_logs' = Commit(scraped)
           /\ run_result' = [outcome  |-> IF scraped.raised = "no" THEN "committed"
                                          ELSE scraped.raised,
                             inserted |-> Len(torque_logs') - Len(torque_logs),
                             repeat   |-> runs > 0 /\ ~dirty,
                             day      |-> today]
    /\ runs' = runs + 1
    /\ dirty' = FALSE
    /\ UNCHANGED <<server_logs, torque_files, today>>
    /\ UNCHANGED <<tariffVars, aggVars, inputVars, memVars, traceVars, dorkVars>>

\* Lines written so far to the files of days 1 .. d.
RECURSIVE NumLines(_)
NumLines(d) == IF d = 0 THEN 0 ELSE Len(torque_files[d]) + NumLines(d - 1)

\* The scheduler writes a line to the file of the current day.
AppendLine ==
    /\ NumLines(MaxDay) < MaxAppended
    /\ \E line \in AccountingLines :
          torque_files' = [torque_files EXCEPT ![today] = Append(@, Stamp(line, today))]
    /\ dirty' = TRUE
    /\ UNCHANGED <<server_logs, torque_logs, today, runs, run_result>>
    /\ UNCHANGED <<tariffVars, aggVars, inputVars, memVars, traceVars, dorkVars>>

\* Midnight.
NextDay ==
    /\ today < MaxDay
    /\ today' = today + 1
    /\ UNCHANGED <<server_logs, torque_files, torque_logs, dirty, runs, run_result>>
    /\ UNCHANGED <<tariffVars, aggVars, inputVars, memVars, traceVars, dorkVars>>

InitScrape == IdleTariffVars /\ IdleAggVars /\ IdleInputVars /\ IdleMemVars
              /\ IdleTraceVars /\ InitScrapeVars /\ IdleDorkVars
NextScrape == ScrapeRun \/ AppendLine \/ NextDay
SpecScrape == InitScrape /\ [][NextScrape]_vars


(***************************************************************************)
(* Claims about the scraper.                                               *)
(***************************************************************************)
\* The step is one scrape run.
IsRun == runs' = runs + 1
\* No file holds a date beyond the watermark max(logdate) of the store.
NoNewDates == \A d \in 1..MaxDay :
                  d > get_last_database_date(torque_logs) => torque_files[d] = <<>>
\* The step is a run that follows a run with no line written in between.
IsRepeatedRun == IsRun /\ runs > 0 /\ ~dirty

\* C21: a scrape run made when the files hold no dates beyond the watermark
\* inserts zero rows and leaves the store unchanged, and a run that follows a
\* run over the same unchanged files leaves the store as the first run left it.
C21_IdempotentOnEmptyDelta ==
    [][(IsRun /\ (NoNewDates \/ IsRepeatedRun))
          => (torque_logs' = torque_logs /\ run_result'.inserted = 0)]_vars

\* A second run over unchanged files, after a first run that stored rows.
C21_Witness ==
    /\ run_result.repeat
    /\ run_result.outcome = "committed"
    /\ run_result.inserted = 0
    /\ Len(torque_logs) > 0


\* The completed-job lines of all dated files, oldest file first.
RECURSIVE CompletedLines(_)
CompletedLines(d) ==
    IF d = 0 THEN <<>>
    ELSE CompletedLines(d - 1) \o SelectSeq(torque_files[d], IsCompletedJob)
\* Occurrences of x in the sequence s.
Count(s, x) == Cardinality({i \in 1..Len(s) : s[i] = x})
\* The rows that the lines of a sequence stand for.
RowsOf(lines) == [i \in 1..Len(lines) |-> ExtractRow(lines[i], server_logs)]
\* The last step was a run that committed, made on a day later than every line.
FinalRunDone ==
    /\ runs > 0
    /\ ~dirty
    /\ run_result.outcome = "committed"
    /\ run_result.day = today
    /\ torque_files[today] = <<>>

\* C22: after runs interleaved with the scheduler appending lines, also to the
\* file of the current day after a run has scraped it, a final run made on a
\* later day leaves the row of every Exit_status line of every dated file in
\* the store exactly once.
C22_EveryLineStoredOnce ==
    FinalRunDone =>
        LET rows == RowsOf(CompletedLines(MaxDay))
        IN  \A i \in 1..Len(rows) :
               /\ rows[i].res = "value"
               /\ Count(torque_logs, rows[i].v) = Count(rows, rows[i])


\* The last step was the first run, so it scanned every file written so far.
FirstRunDone == runs = 1 /\ ~dirty

\* C23: every line with an Exit_status marker yields exactly one inserted row,
\* also when optional fields are absent: each missing field takes its default
\* and the conversions that follow complete on the defaults.  Hence a first run
\* commits as many rows as the files hold completed-job lines.
C23_DefaultsYieldRows ==
    FirstRunDone =>
        /\ run_result.outcome = "committed"
        /\ Len(torque_logs) = Len(CompletedLines(MaxDay))

\* int(s) for a string of digits with an optional minus sign
SignedInt(s) == IF s # <<>> /\ Head(s) = "-" THEN 0 - ParseInt(Tail(s)) ELSE ParseInt(s)

\* C27: for every line selected as a completed job (Exit_status=<int>, where
\* the integer may be negative) the exit_status stored in its row equals the
\* integer written in the line.
C27_ExitStatusStored ==
    (FirstRunDone /\ run_result.outcome = "committed") =>
        \A i \in 1..Len(torque_logs) :
            SignedInt(torque_logs[i].exit_status)
                = SignedInt(CompletedLines(MaxDay)[i].exit_status)

\* s is a prefix of t.
IsPrefix(s, t) == Len(s) <= Len(t) /\ SubSeq(t, 1, Len(s)) = s

\* C29: a run is all-or-nothing with respect to the store.  A run that raises
\* part-way leaves the rows of the store exactly as they were, a run that
\* commits only adds rows after the rows stored before, and no other step
\* touches the store.
C29_AllOrNothing ==
    [][/\ IsPrefix(torque_logs, torque_logs')
       /\ (IsRun /\ run_result'.outcome # "committed") => torque_logs' = torque_logs
       /\ ~IsRun => torque_logs' = torque_logs]_vars

\* A run that raised after rows had been inserted in its transaction, made
\* over a store that held rows of an earlier run.
C29_Witness ==
    /\ runs = 2
    /\ run_result.outcome = "UnboundLocalError"
    /\ Len(torque_logs) > 0
    /\ \E d \in 1..MaxDay :
          /\ d > get_last_database_date(torque_logs)
          /\ Len(torque_files[d]) > 1
          /\ Stamp(JobLine, d) = torque_files[d][1]


(***************************************************************************)
(* torqueDork.py: the per-user statistics over the rows of one query.      *)
(*                                                                         *)
(* The frame that pd.read_sql_query returns has, for the columns declared  *)
(* without a type in CREATE TABLE (scrapeTorque.py, lines 102-114), cells  *)
(* of the storage class they were inserted with: text for a store filled   *)
(* by scrapeTorque, which inserts strings, numbers for a store filled with *)
(* numbers.  cells tells which; the numbers of a row are kept as integers  *)
(* in both cases.                                                          *)
(***************************************************************************)
MaxQueried == 2      \* most rows a query returns

DorkRow(user, mem_req_mb, mem_mb, walltime_sec, cput_sec, nproc, ngpus) ==
    [user |-> user, mem_req_mb |-> mem_req_mb, mem_mb |-> mem_mb,
     walltime_sec |-> walltime_sec, cput_sec |-> cput_sec, nproc |-> nproc,
     ngpus |-> ngpus]

QueryRows == {DorkRow("a", 4096, 2048, 1800, 60, 2, 0),
              DorkRow("a", 1000, 3000, 3600, 7200, 1, 1),
              DorkRow("a", 0, 2, 0, 0, 1, 0),
              DorkRow("b", 2000, 2, 1800, 1800, 1, 0)}

Frames == [cells : {"text", "number"}, rows : SeqsUpTo(QueryRows, MaxQueried)]

Users(rows) == {rows[i].user : i \in 1..Len(rows)}

\* a / b on two float columns: x / 0 is inf, 0 / 0 is nan
FDiv(a, b) == IF b = 0 THEN (IF a = 0 THEN NaN ELSE Inf) ELSE Num(Rat(a, b))

\* sum of a sequence of ints, and of floats with nan skipped
RECURSIVE SumInts(_)
SumInts(xs) == IF xs = <<>> THEN 0 ELSE Head(xs) + SumInts(Tail(xs))
RECURSIVE SumSkipNa(_)
SumSkipNa(xs) ==
    IF xs = <<>> THEN Num(<<0, 1>>)
    ELSE IF Head(xs).kind = "nan" THEN SumSkipNa(Tail(xs))
    ELSE FAdd(Head(xs), SumSkipNa(Tail(xs)))

\* The rows of a user, in order.
Group(rows, user) == SelectSeq(rows, LAMBDA r : r.user = user)

\* data.groupby("user")[column].transform(sum), and column of
\* groupby("user").sum(): the total of an int column over the rows of the user
GroupSum(rows, user, column) ==
    LET g == Group(rows, user) IN SumInts([i \in 1..Len(g) |-> g[i][column]])

\* groupby("user").sum() of a float column: nan is skipped
GroupSumSkipNa(rows, user, column) ==
    LET g == Group(rows, user) IN SumSkipNa([i \in 1..Len(g) |-> g[i][column]])

\* .clip(upper=1)
ClipUpper(x) == IF x.kind = "inf" THEN Num(<<1, 1>>)
                ELSE IF x.kind = "num" /\ ~RLe(x.val, <<1, 1>>) THEN Num(<<1, 1>>)
                ELSE x

calculate_mem_efficiency(rows) ==
    LET data == [i \in 1..Len(rows) |->
                   [user    |-> rows[i].user,
                    mem_eff |-> FMul(FDiv(rows[i].mem_mb, rows[i].mem_req_mb),
                                     FDiv(rows[i].mem_req_mb,
                                          GroupSum(rows, rows[i].user, "mem_req_mb")))]]
    IN  [u \in Users(rows) |-> ClipUpper(GroupSumSkipNa(data, u, "mem_eff"))]

calculate_cpu_efficiency(rows) ==
    LET requested == [i \in 1..Len(rows) |->
                        [user      |-> rows[i].user,
                         cput_sec  |-> rows[i].cput_sec,
                         requested |-> rows[i].walltime_sec * rows[i].nproc]]
        data == [i \in 1..Len(rows) |->
                   [user    |-> rows[i].user,
                    cpu_eff |-> FMul(FDiv(requested[i].cput_sec, requested[i].requested),
                                     FDiv(requested[i].requested,
                                          GroupSum(requested, rows[i].user, "requested")))]]
    IN  [u \in Users(rows) |-> ClipUpper(GroupSumSkipNa(data, u, "cpu_eff"))]

\* convert_seconds_to_datetimeString(seconds), %d truncating the float
convert_seconds_to_datetimeString(seconds) ==
    LET sec == seconds[1] \div seconds[2]
        TwoDigits(n) == IF n < 10 THEN <<"0">> \o IntToStr(n) ELSE IntToStr(n)
    IN  IntToStr(sec \div 3600) \o <<":">> \o TwoDigits((sec \div 60) % 60)
            \o <<":">> \o TwoDigits(sec % 60)

\* compute_carbon_load: for every user the list handed to
\* ScienceFarts.ScienceFarts(..., "forecast"), and the memory_gb that
\* ForecastStats derives from it.
compute_carbon_load(rows) ==
    [u \in Users(rows) |->
       LET cput_mean == Rat(GroupSum(rows, u, "cput_sec"), Len(Group(rows, u)))
           input == << PyStr(convert_seconds_to_datetimeString(cput_mean)),
                       PyInt(GroupSum(rows, u, "mem_req_mb") \div 1000),
                       PyInt(GroupSum(rows, u, "nproc")),
                       PyInt(GroupSum(rows, u, "ngpus")) >>
       IN  [walltime  |-> input[1],
            mem_gb    |-> input[2],
            cpus      |-> input[3],
            gpus      |-> input[4],
            memory_gb |-> ConvertMemoryToGb(FormatUserInput(input).v[2])]]

InitDorkVars ==
    /\ query_data = [cells |-> "none", rows |-> <<>>]
    /\ data_stats = [state |-> "none"]
    /\ carbon_input = [state |-> "none"]
    /\ dpc = "query"

\* main up to the check of the frame: query_torque_database; sys.exit(1) on an
\* empty frame.
QueryTorqueDatabase ==
    /\ dpc = "query"
    /\ \E frame \in Frames :
          /\ query_data' = frame
          /\ dpc' = IF frame.rows = <<>> THEN "exit" ELSE "stats"
    /\ UNCHANGED <<data_stats, carbon_input>>
    /\ UNCHANGED <<tariffVars, aggVars, inputVars, memVars, traceVars, scrapeVars>>

\* compute_stats.  With text cells the first division (line 190) is str / str
\* and raises TypeError.  With self.carbon, compute_carbon_load first sums all
\* columns but cput_sec per user, logdate among them: dates cannot be added,
\* and whether pandas drops that column or raises depends on its version.
ComputeStats ==
    /\ dpc = "stats"
    /\ IF query_data.cells = "text"
       THEN /\ data_stats' = [state |-> "TypeError"]
            /\ carbon_input' = [state |-> "none"]
            /\ dpc' = "raised"
       ELSE \E carbon \in BOOLEAN, sums_dates \in BOOLEAN :
               IF carbon /\ ~sums_dates
               THEN /\ data_stats' = [state |-> "TypeError"]
                    /\ carbon_input' = [state |-> "none"]
                    /\ dpc' = "raised"
               ELSE /\ data_stats' = [state   |-> "done",
                                      mem_eff |-> calculate_mem_efficiency(query_data.rows),
                                      cpu_eff |-> calculate_cpu_efficiency(query_data.rows)]
                    /\ carbon_input' = IF carbon
                                       THEN [state |-> "done",
                                             user  |-> compute_carbon_load(query_data.rows)]
                                       ELSE [state |-> "off"]
                    /\ dpc' = "done"
    /\ UNCHANGED query_data
    /\ UNCHANGED <<tariffVars, aggVars, inputVars, memVars, traceVars, scrapeVars>>

InitDork == IdleTariffVars /\ IdleAggVars /\ IdleInputVars /\ IdleMemVars
            /\ IdleTraceVars /\ IdleScrapeVars /\ InitDorkVars
NextDork == QueryTorqueDatabase \/ ComputeStats
SpecDork == InitDork /\ [][NextDork]_vars


(***************************************************************************)
(* Claims about the per-user statistics.                                   *)
(***************************************************************************)
\* min(1, a / b) for ints a >= 0 and b > 0
MinOne(a, b) == IF a >= b THEN Num(<<1, 1>>) ELSE Num(Rat(a, b))
\* 0 <= x <= 1
InUnitInterval(x) == x.kind = "num" /\ x.val[1] >= 0 /\ RLe(x.val, <<1, 1>>)

\* C24: for every user mem_eff = min(1, sum(mem_mb) / sum(mem_req_mb)) and
\* cpu_eff = min(1, sum(cput_sec) / sum(walltime_sec * nproc)), the
\* request-weighted means of the per-job efficiencies clipped at 1, and both
\* lie in [0, 1].
C24_WeightedEfficiencies ==
    data_stats.state = "done" =>
        \A u \in Users(query_data.rows) :
            LET mem_mb     == GroupSum(query_data.rows, u, "mem_mb")
                mem_req_mb == GroupSum(query_data.rows, u, "mem_req_mb")
                cput_sec   == GroupSum(query_data.rows, u, "cput_sec")
                g          == Group(query_data.rows, u)
                requested  == SumInts([i \in 1..Len(g) |-> g[i].walltime_sec * g[i].nproc])
            IN  /\ InUnitInterval(data_stats.mem_eff[u])
                /\ InUnitInterval(data_stats.cpu_eff[u])
                /\ mem_req_mb > 0 => data_stats.mem_eff[u] = MinOne(mem_mb, mem_req_mb)
                /\ requested > 0 => data_stats.cpu_eff[u] = MinOne(cput_sec, requested)

\* C25: the forecast for a user receives the mean walltime, mean memory (MB /
\* 1000, as whole GB), mean core count and mean GPU count of the user's jobs,
\* and the forecast calculator takes the memory it receives as that many GB.
C25_MeanProfile ==
    carbon_input.state = "done" =>
        \A u \in Users(query_data.rows) :
            LET n == Len(Group(query_data.rows, u))
                mean(column) == Rat(GroupSum(query_data.rows, u, column), n)
                given == carbon_input.user[u]
            IN  /\ given.walltime.s = convert_seconds_to_datetimeString(mean("walltime_sec"))
                /\ given.mem_gb.q = RInt(RDiv(mean("mem_req_mb"), RInt(1000))[1]
                                           \div RDiv(mean("mem_req_mb"), RInt(1000))[2])
                /\ given.cpus.q = mean("nproc")
                /\ given.gpus.q = mean("ngpus")
                /\ given.memory_gb.res = "value"
                /\ given.memory_gb.v.q = given.mem_gb.q


(***************************************************************************)
(* Further claims about the tariff walk and the per-job records.           *)
(***************************************************************************)
\* C26: in every iteration of the tariff walk the segment length satisfies
\* 0 < segment_hours <= 1, for every interval with start_time <= end_time,
\* whole-hour durations and start_time = end_time included.
C26_SegmentLength ==
    (InLoop /\ iterations > 0) => (0 < time_diff /\ time_diff <= OneHour)

\* rate * energy_kwh of a row of the table of traced jobs
ScalarCharge(ref, r) == Num(RMul(RInt(ref.rate), r.energy_kwh.val))

\* C28: with a scalar tariff rate the cost and the emissions computed for a job
\* record equal rate * energy_kwh, for the records of job-array traces and of
\* single-job traces (start_time from the start marker, walltime from
\* resources_used.walltime).
C28_ScalarCharge ==
    tpc = "costed" =>
        \A i \in 1..Len(trace_df) :
            /\ trace_df[i].cost_DKK = ScalarCharge(energy_price, trace_df[i])
            /\ trace_df[i].emissions_g = ScalarCharge(carbon_intensity, trace_df[i])


\* The cpu_efficiency column of the record has been computed.
HasEfficiency(r) == r.cpu_efficiency.kind # "unset"

\* C30: for every historical record with cpu_time > 0 and walltime > 0, whose
\* core count is inferred as ceil(cpu_time / walltime_seconds), cpu_efficiency
\* = cpu_time / cores / walltime_seconds lies in (0, 1]; and for every forecast
\* record cpu_efficiency equals exactly 1.
C30_EfficiencyRange ==
    /\ \A i \in 1..Len(trace_df) :
          (HasEfficiency(trace_df[i]) /\ trace_df[i].cpu_time.q[1] > 0
                                      /\ trace_df[i].walltime > 0)
             => /\ trace_df[i].cpu_efficiency.kind = "num"
                /\ trace_df[i].cpu_efficiency.val[1] > 0
                /\ RLe(trace_df[i].cpu_efficiency.val, <<1, 1>>)
    /\ (forecast_row.state = "set" /\ HasEfficiency(forecast_row))
          => forecast_row.cpu_efficiency = Num(<<1, 1>>)

=============================================================================
